---- MODULE Spec2Model ----
(***************************************************************************)
(* Live data synchronisation of the georiskAIAPAC frontend: the zustand    *)
(* domain stores (risk, GDELT, travel advisory, price, radar, JP Morgan),  *)
(* their refresh operations, the push channels of the stream-backed stores *)
(* and the poll timer of the radar store.                                  *)
(*                                                                         *)
(* The stores are independent objects, so one behaviour follows one store: *)
(* Init picks the store, and every action is a callback turn of the        *)
(* single-threaded event loop acting on it.                                *)
(***************************************************************************)
EXTENDS Integers, Sequences, FiniteSets, TLC

\* ------------------------------------------------------------------ bounds
\* Refresh calls issued in one behaviour.
MaxCalls == 2
\* Longest array a response body carries.
MaxLen == 2
\* Rendering-surface instances and graphic layers constructed in one behaviour.
MaxMounts == 2
\* Animation-frame requests made in one behaviour.
MaxFrames == 4
\* loadCountryBoundaries runs in flight at once.
MaxRebuilds == 2
\* Vertices of the longest boundary ring followed.
MaxRing == 220
\* Updates the popup tracker makes after one selection or camera move.
MaxUpdates == 2

\* --------------------------------------------------------- program constants
GDELT_RECONNECT_DELAY_MS == 2000
RADAR_POLL_MS == 15000
GDELT_DEFAULT_QUERY == "military"

Stores == {"risk", "gdelt", "travel", "price", "radar", "jpmorgan"}
StreamStores == {"risk", "gdelt"}
ChangeStores == {"risk", "gdelt"}

\* `null` of a string-valued field, and an absent (undefined) string field.
NULL == "null"
UNDEFINED == "undefined"
\* An optional value: None is null, Some(x) holds x.
None == <<>>
Some(x) == <<x>>

Calls == 1 .. MaxCalls

\* ------------------------------------------------------------ domain records
RiskItem(id, level) == [id |-> id, risk_level |-> level, updated_at |-> "t1"]
RiskItems == {RiskItem(1, 10), RiskItem(1, 85), RiskItem(2, 10)}

GdeltItems == {[latitude |-> 1, longitude |-> 103, count |-> 5],
               [latitude |-> 35, longitude |-> 139, count |-> 9]}
TravelItems == {[country |-> "JA", level |-> 2], [country |-> "KS", level |-> 1]}
PriceItems == {[country |-> "JP", currency |-> "JPY"],
               [country |-> "SG", currency |-> "SGD"]}
OfficeItems == {[id |-> 1, city |-> "Hong Kong"], [id |-> 11, city |-> "Taipei"]}

\* A JSON value of a raw flight record: a number, null, or absent.
JsNum(n) == [t |-> "number", n |-> n]
JsNull == [t |-> "null", n |-> 0]
JsUndefined == [t |-> "undefined", n |-> 0]
JsNaN == [t |-> "NaN", n |-> 0]
RadarRaws ==
    {[icao24 |-> JsNum(1), callsign |-> JsNum(7), latitude |-> JsNum(1),
      longitude |-> JsNum(103), baro_altitude |-> JsNum(9000), true_track |-> JsNum(90)],
     [icao24 |-> JsNum(2), callsign |-> JsUndefined, latitude |-> JsUndefined,
      longitude |-> JsNum(139), baro_altitude |-> JsNull, true_track |-> JsUndefined]}

\* x ?? null
OrNull(v) == IF v.t \in {"null", "undefined"} THEN JsNull ELSE v
\* Number(x)
Number(v) ==
    CASE v.t = "number" -> v
      [] v.t = "null" -> JsNum(0)
      [] OTHER -> JsNaN
\* x != null ? Number(x) : null
NumberOrNull(v) == IF v.t \in {"null", "undefined"} THEN JsNull ELSE Number(v)

RadarItem(r) ==
    [icao24 |-> OrNull(r.icao24),
     callsign |-> OrNull(r.callsign),
     latitude |-> Number(r.latitude),
     longitude |-> Number(r.longitude),
     baro_altitude |-> NumberOrNull(r.baro_altitude),
     true_track |-> NumberOrNull(r.true_track)]

APAC_CITIES ==
    <<"Hong Kong", "Singapore", "Tokyo", "Sydney", "Mumbai",
      "Shanghai", "Seoul", "Bangkok", "Jakarta", "Manila">>
APAC_OFFICES == [i \in 1 .. Len(APAC_CITIES) |-> [id |-> i, city |-> APAC_CITIES[i]]]

ItemsOf(s) ==
    CASE s = "risk" -> RiskItems
      [] s = "gdelt" -> GdeltItems
      [] s = "travel" -> TravelItems
      [] s = "price" -> PriceItems
      [] s = "radar" -> RadarRaws
      [] OTHER -> OfficeItems

SeqsUpTo(S, n) == UNION {[1 .. k -> S] : k \in 0 .. n}

\* ------------------------------------------------------------ response bodies
\* A parsed JSON body: a bare array, {items: [...]}, {features: [...], query?},
\* an object with neither array, or JSON null.
Body(shape, items, q) == [shape |-> shape, items |-> items, query |-> q]
Queries == {UNDEFINED, "protest"}
\* The arrays a store may be sent under a key: every array up to MaxLen under
\* a key it reads, the arrays of at most one record under a key it ignores.
ArraysUnder(s, shape) ==
    IF \/ shape = "array" /\ s \in {"risk", "radar", "price", "jpmorgan"}
       \/ shape = "items" /\ s \in {"travel", "price", "jpmorgan"}
       \/ shape = "features" /\ s = "gdelt"
    THEN SeqsUpTo(ItemsOf(s), MaxLen)
    ELSE SeqsUpTo(ItemsOf(s), 1)
Payloads(s) ==
    {Body("array", x, UNDEFINED) : x \in ArraysUnder(s, "array")}
    \cup {Body("items", x, UNDEFINED) : x \in ArraysUnder(s, "items")}
    \cup {Body("features", x, q) : x \in ArraysUnder(s, "features"),
                                   q \in IF s = "gdelt" THEN Queries ELSE {UNDEFINED}}
    \cup {Body("object", <<>>, UNDEFINED), Body("null", <<>>, UNDEFINED)}

\* Reading a property of the body throws a TypeError (the body is null).
ParseThrows(s, p) == s \in {"gdelt", "travel"} /\ p.shape = "null"

\* The snapshot a store takes from a body.
ParseItems(s, p) ==
    CASE s = "risk" -> IF p.shape = "array" THEN p.items ELSE <<>>
      [] s = "gdelt" -> IF p.shape = "features" THEN p.items ELSE <<>>
      [] s = "travel" -> IF p.shape = "items" THEN p.items ELSE <<>>
      [] s = "radar" ->
           IF p.shape = "array"
           THEN [i \in 1 .. Len(p.items) |-> RadarItem(p.items[i])]
           ELSE <<>>
      [] OTHER -> IF p.shape \in {"items", "array"} THEN p.items ELSE <<>>

\* payload.query ?? GDELT_DEFAULT_QUERY
ParseQuery(p) == IF p.query = UNDEFINED THEN GDELT_DEFAULT_QUERY ELSE p.query

ErrorMessage(s) ==
    CASE s = "risk" -> "Unable to load risk data."
      [] s = "gdelt" -> "Unable to load GDELT hotspots."
      [] s = "travel" -> "Unable to load travel advisories."
      [] s = "price" -> "Unable to load price data."
      [] s = "radar" -> "Unable to load flight data."
      [] OTHER -> "Unable to load JP Morgan offices data."

\* ------------------------------------------------------------------- digests
\* Array.prototype.sort with (a, b) => a.id - b.id: stable, ties keep input order.
InsertById(sorted, x) ==
    LET k == Cardinality({i \in 1 .. Len(sorted) : sorted[i].id <= x.id})
    IN SubSeq(sorted, 1, k) \o <<x>> \o SubSeq(sorted, k + 1, Len(sorted))

RECURSIVE SortById(_)
SortById(s) ==
    IF s = <<>> THEN <<>>
    ELSE InsertById(SortById(SubSeq(s, 1, Len(s) - 1)), s[Len(s)])

\* JSON.stringify of the sorted (id, risk_level, updated_at) projection; the
\* string is modelled by the sequence of triples it spells out.
RiskDigest(items) ==
    LET sorted == SortById(items)
    IN [i \in 1 .. Len(sorted) |->
          <<sorted[i].id, sorted[i].risk_level, sorted[i].updated_at>>]

\* JSON.stringify({ q: nextQuery, len: features.length })
GdeltDigest(q, features) == <<q, Len(features)>>

Digest(s, q, items) == IF s = "risk" THEN RiskDigest(items) ELSE GdeltDigest(q, items)

\* Mutant: the first digest is compared with null and counts as a change.
HasChangedNoNullCheck(last, snapshot) == Some(snapshot) # last

\* Mutant: every success after the first counts as a change.
HasChangedIgnoresDigest(last, snapshot) == last # None

\* state.lastSnapshot !== null && snapshot !== state.lastSnapshot
HasChanged(last, snapshot) == last # None /\ Some(snapshot) # last

ChangeEvent(s, at, q) ==
    IF s = "risk"
    THEN [type |-> "risk_updated", at |-> at, query |-> UNDEFINED]
    ELSE [type |-> "gdelt_updated", at |-> at, query |-> q]

\* --------------------------------------------------------------------- state
VARIABLES
    store,            \* the store this behaviour follows
    data, query, loading, error, streamConnected, lastEvent, lastSnapshot,
    pc,               \* each refresh call: "idle", "fetch", "json" or "done"
    sig,              \* its AbortSignal: "none", "live" or "aborted"
    awaiter,          \* the startRadarPolling call awaiting it, if any
    lastOutcome,      \* how the last call to return ended: "ok", "failed", "cancelled"
    lastHadData,      \* whether data was non-empty when that call was made
    dataBefore, errorBefore, writesBefore,  \* data, error, nWrites when it was called
    nWrites,          \* writes of data by all calls
    nSuccess,         \* successful refreshes so far
    emitted,          \* Change Events emitted so far
    eventSource,      \* riskEventSource / gdeltEventSource: 0 is null
    openSources,      \* EventSource objects not closed
    timers,           \* pending reconnect timeouts
    pollTimer,        \* the radar module's pollTimer: 0 is null
    intervals         \* active setInterval timers

storeVars == <<data, query, lastEvent, lastSnapshot>>
flagVars == <<loading, error>>
callVars == <<pc, sig, awaiter, lastOutcome, lastHadData, dataBefore, errorBefore, writesBefore>>
ghostVars == <<nWrites, nSuccess, emitted>>
streamVars == <<streamConnected, eventSource, openSources, timers>>
pollVars == <<pollTimer, intervals>>

\* One data layer binding of the map view and the viewport controller above it.
VARIABLES
    kind,             \* the binding this behaviour follows
    mounted,          \* the map component is mounted
    layerData, enabled,  \* the binding's props at the last render
    viewRef,          \* viewRef.current / viewerRef.current: 0 is null
    views,            \* rendering-surface instances constructed so far (ids 1 .. views)
    ownView,          \* the instance the controller's pending cleanup closes over
    destroyCalls,     \* destroy() calls received by each instance
    layerRef,         \* graphicsLayerRef / layerRef / dataSourceRef: 0 is null
    layers,           \* graphic layers constructed so far (ids 1 .. layers)
    ownLayer,         \* the layer the mount effect's pending cleanup belongs to
    mapLayers,        \* <<view, layer>>: the layer is in the view's map
    graphics,         \* the primitives each layer holds
    hoverHandlerRef, clickHandlerRef,  \* the layer whose handle the ref holds
    handlers,         \* handlers registered and not removed
    animationRef,     \* animationRef.current / rafId: 0 is null
    rafs,             \* animation-frame requests pending
    frames,           \* animation-frame requests made so far
    tickCleanup,      \* the update effect has a cleanup pending
    rebuilds,         \* loadCountryBoundaries runs in flight
    lastRun,          \* the last update phase that reached its layer
    viewLog,          \* calls made into views: <<operation, view was destroyed>>
    worldLoaded       \* a loadCountryBoundaries run has read the boundary dataset

viewerVars == <<viewRef, views, ownView, destroyCalls>>
layerVars == <<layerRef, layers, ownLayer, mapLayers, graphics, hoverHandlerRef,
               clickHandlerRef, handlers>>
loopVars == <<animationRef, rafs, frames, tickCleanup>>
bindingVars == <<kind, mounted, layerData, enabled, viewerVars, layerVars, loopVars,
                 rebuilds, lastRun, viewLog, worldLoaded>>

\* Pointer events on a view that holds the four bindings with both handlers.
VARIABLES
    hoverRef,         \* each binding's hoverRef.current: 0 is null
    shown,            \* <<binding, primitive>>: highlighted, or its label visible
    pointerEvent,     \* the event whose hit-tests are pending
    pendingTests,     \* hitTest promises not settled: the bindings of the event
                      \* followed, or <<binding, primitive hit>> when events overlap
    delivered,        \* the onSelect calls made for that event, in order
    viewGone          \* view.destroyed

pointerVars == <<hoverRef, shown, pointerEvent, pendingTests, delivered, viewGone>>

\* The popup position tracker and the map-action channel of the map component.
VARIABLES
    popupData,        \* the selection the map component renders
    popupRef,         \* popupRef.current, written after each render
    camera,           \* where the selected anchor projects on the screen now
    updates,          \* tracker updates since the last selection or camera move
    trackerOn,        \* the tracker's interval and view watches are installed
    esOpen            \* the map-action EventSource is open

trackerVars == <<popupData, popupRef, camera, updates, trackerOn, esOpen>>

\* One boundary ring through renderCountryGeometry, and one code through the
\* region-code table.
VARIABLES
    geometryRing,     \* geometry.coordinates[0] of a boundary feature
    polygonRing,      \* the ring of the Polygon built from it
    apiCode,          \* a region code
    resolved          \* COUNTRY_CODE_TO_ISO2[apiCode]

ringVars == <<geometryRing, polygonRing>>
codeVars == <<apiCode, resolved>>

\* The chat store and the chat drawer's list effect.
VARIABLES
    drawerOpened,     \* the chat store's drawerOpened
    chats,            \* the chat list
    loadingChats,     \* the chat store's loadingChats
    chatError,        \* the chat store's chatError
    chatFetches,      \* fetchChats calls past the guard: [phase, signal]
    sendingMessage,   \* a sendMessage call awaits the reply to its POST
    listed            \* a fetchChats call has set chats or chatError since the drawer opened

chatVars == <<drawerOpened, chats, loadingChats, chatError, chatFetches,
              sendingMessage, listed>>

mapVars == <<bindingVars, pointerVars, trackerVars, ringVars, codeVars, chatVars>>
vars == <<store, storeVars, flagVars, callVars, ghostVars, streamVars, pollVars, mapVars>>

InitStore(s) ==
    /\ store = s
    /\ data = <<>>
    /\ query = GDELT_DEFAULT_QUERY
    /\ loading = FALSE
    /\ error = NULL
    /\ streamConnected = FALSE
    /\ lastEvent = None
    /\ lastSnapshot = None
    /\ pc = [c \in Calls |-> "idle"]
    /\ sig = [c \in Calls |-> "none"]
    /\ awaiter = [c \in Calls |-> "none"]
    /\ lastOutcome = "none"
    /\ lastHadData = FALSE
    /\ dataBefore = [c \in Calls |-> <<>>]
    /\ errorBefore = [c \in Calls |-> NULL]
    /\ writesBefore = [c \in Calls |-> 0]
    /\ nWrites = 0
    /\ nSuccess = 0
    /\ emitted = 0
    /\ eventSource = 0
    /\ openSources = {}
    /\ timers = <<>>
    /\ pollTimer = 0
    /\ intervals = {}

InitBinding(k) ==
    /\ kind = k
    /\ mounted = FALSE
    /\ layerData = <<>>
    /\ enabled = FALSE
    /\ viewRef = 0
    /\ views = 0
    /\ ownView = 0
    /\ destroyCalls = [v \in 1 .. MaxMounts |-> 0]
    /\ layerRef = 0
    /\ layers = 0
    /\ ownLayer = 0
    /\ mapLayers = {}
    /\ graphics = [l \in 1 .. MaxMounts |-> <<>>]
    /\ hoverHandlerRef = 0
    /\ clickHandlerRef = 0
    /\ handlers = {}
    /\ animationRef = 0
    /\ rafs = {}
    /\ frames = 0
    /\ tickCleanup = FALSE
    /\ rebuilds = <<>>
    /\ lastRun = None
    /\ viewLog = {}
    /\ worldLoaded = FALSE

PointerKinds == {"risk", "price", "jpmorgan", "travel"}
\* Facility and point layers, and the area layer under them.
PointKinds == {"risk", "price", "jpmorgan"}

InitPointer ==
    /\ hoverRef = [k \in PointerKinds |-> 0]
    /\ shown = {}
    /\ pointerEvent = None
    /\ pendingTests = {}
    /\ delivered = <<>>
    /\ viewGone = FALSE

InitTracker ==
    /\ popupData = None
    /\ popupRef = None
    /\ camera = None
    /\ updates = 0
    /\ trackerOn = FALSE
    /\ esOpen = FALSE

InitRing == geometryRing = <<>> /\ polygonRing = None
InitCode == apiCode = "" /\ resolved = None

InitChat ==
    /\ drawerOpened = FALSE
    /\ chats = <<>>
    /\ loadingChats = FALSE
    /\ chatError = NULL
    /\ chatFetches = {}
    /\ sendingMessage = FALSE
    /\ listed = FALSE

\* No map view is mounted and no pointer event has been seen.
NoMap == InitBinding("risk") /\ InitPointer /\ InitTracker /\ InitRing /\ InitCode
             /\ InitChat

Init == (\E s \in Stores : InitStore(s)) /\ NoMap

\* ------------------------------------------------------------- refresh calls
FreeCalls == {c \in Calls : pc[c] = "idle"}
\* Calls are numbered in the order they are issued.
NextCall == CHOOSE c \in FreeCalls : \A d \in FreeCalls : c <= d
InFlight(c) == pc[c] \in {"fetch", "json"}

\* set({ loading: true, error: null }) and the start of fetch(url, { signal })
Begin(c, s, aw) ==
    /\ loading' = TRUE
    /\ error' = NULL
    /\ pc' = [pc EXCEPT ![c] = "fetch"]
    /\ sig' = [sig EXCEPT ![c] = s]
    /\ awaiter' = [awaiter EXCEPT ![c] = aw]
    /\ dataBefore' = [dataBefore EXCEPT ![c] = data]
    /\ errorBefore' = [errorBefore EXCEPT ![c] = error]
    /\ writesBefore' = [writesBefore EXCEPT ![c] = nWrites]
    /\ UNCHANGED <<lastOutcome, lastHadData, storeVars, ghostVars>>

\* The continuation of startRadarPolling after `await fetchRadar()`; it runs in
\* the same turn in which the awaited call returns.
Resume(c) ==
    IF awaiter[c] = "polling" /\ Len(data') > 0
    THEN /\ pollTimer' = c
         /\ intervals' = intervals \cup {[id |-> c, ms |-> RADAR_POLL_MS]}
    ELSE UNCHANGED pollVars

\* The call returns (its finally block has run).
Finish(c, out) ==
    /\ pc' = [pc EXCEPT ![c] = "done"]
    /\ lastOutcome' = out
    /\ lastHadData' = (dataBefore[c] # <<>>)
    /\ sig' = [sig EXCEPT ![c] = "none"]
    /\ awaiter' = [awaiter EXCEPT ![c] = "none"]
    /\ dataBefore' = [dataBefore EXCEPT ![c] = <<>>]
    /\ errorBefore' = [errorBefore EXCEPT ![c] = NULL]
    /\ writesBefore' = [writesBefore EXCEPT ![c] = 0]
    /\ UNCHANGED <<store, mapVars, streamVars>>
    /\ Resume(c)

\* Mutant: the cancelled path returns without clearing loading.
CatchAbortKeepsLoading(c) ==
    /\ loading' = loading
    /\ UNCHANGED <<error, storeVars, ghostVars>>

\* catch: the AbortError branch, then finally
CatchAbort(c) ==
    /\ loading' = FALSE
    /\ UNCHANGED <<error, storeVars, ghostVars>>

\* Mutant: the failure path blanks the snapshot.
CatchErrorClearsData(c) ==
    /\ error' = ErrorMessage(store)
    /\ loading' = FALSE
    /\ data' = <<>>
    /\ UNCHANGED <<query, lastEvent, lastSnapshot, ghostVars>>

\* Mutant: the failure path forgets the change event and the digest.
CatchErrorDropsEvent(c) ==
    /\ error' = ErrorMessage(store)
    /\ loading' = FALSE
    /\ lastEvent' = None
    /\ lastSnapshot' = None
    /\ UNCHANGED <<data, query, ghostVars>>

\* catch: set({ error: '...' }), then finally
CatchError(c) ==
    /\ error' = ErrorMessage(store)
    /\ loading' = FALSE
    /\ UNCHANGED <<storeVars, ghostVars>>

\* The success path's set(...), then finally
Commit(c, items, q) ==
    /\ data' = items
    /\ loading' = FALSE
    /\ IF store \in ChangeStores
       THEN LET snapshot == Digest(store, q, items)
                changed == HasChanged(lastSnapshot, snapshot)
            IN /\ lastSnapshot' = Some(snapshot)
               /\ lastEvent' = IF changed
                               THEN Some(ChangeEvent(store, emitted + 1, q))
                               ELSE lastEvent
               /\ emitted' = IF changed THEN emitted + 1 ELSE emitted
       ELSE UNCHANGED <<lastSnapshot, lastEvent, emitted>>
    /\ query' = IF store = "gdelt" THEN q ELSE query
    /\ error' = IF store \in {"gdelt", "radar"} THEN NULL ELSE error
    /\ nWrites' = nWrites + 1
    /\ nSuccess' = nSuccess + 1

\* Mutant: the facility store keeps what it holds when the API gives nothing.
FallbackKeepsData(c) ==
    /\ loading' = FALSE
    /\ UNCHANGED <<data, error, query, lastEvent, lastSnapshot, nWrites, nSuccess, emitted>>

\* fetchOffices: set({ data: APAC_OFFICES }), then finally
Fallback(c) ==
    /\ data' = APAC_OFFICES
    /\ loading' = FALSE
    /\ nWrites' = nWrites + 1
    /\ UNCHANGED <<error, query, lastEvent, lastSnapshot, nSuccess, emitted>>

\* A rejection with AbortError reaches the store's catch; in fetchOffices the
\* inner catch takes every rejection.
Aborted(c) == IF store = "jpmorgan" THEN Fallback(c) ELSE CatchAbort(c)
Failed(c) == IF store = "jpmorgan" THEN Fallback(c) ELSE CatchError(c)
Resolved(c, p) ==
    IF store = "jpmorgan"
    THEN IF Len(ParseItems(store, p)) > 0
         THEN Commit(c, ParseItems(store, p), query)
         ELSE Fallback(c)
    ELSE IF ParseThrows(store, p)
         THEN CatchError(c)
         ELSE Commit(c, ParseItems(store, p), ParseQuery(p))

\* A caller with a controller of its own (a view effect) or without a signal
\* (chat store) calls the store's fetch function.
Refresh(signalled) ==
    /\ FreeCalls # {}
    /\ Begin(NextCall, IF signalled THEN "live" ELSE "none", "none")
    /\ UNCHANGED <<store, mapVars, streamVars, pollVars>>

\* controller.abort() in an effect's cleanup, while the call is in flight
Abort(c) ==
    /\ InFlight(c)
    /\ sig[c] = "live"
    /\ sig' = [sig EXCEPT ![c] = "aborted"]
    /\ UNCHANGED <<store, mapVars, storeVars, flagVars, pc, awaiter, lastOutcome, lastHadData, dataBefore,
                   errorBefore, writesBefore, ghostVars, streamVars, pollVars>>

\* await fetch(...) rejects with AbortError
FetchAbort(c) ==
    /\ pc[c] = "fetch" /\ sig[c] = "aborted"
    /\ Aborted(c)
    /\ Finish(c, "cancelled")

\* await fetch(...) rejects: network error
FetchReject(c) ==
    /\ pc[c] = "fetch" /\ sig[c] # "aborted"
    /\ Failed(c)
    /\ Finish(c, "failed")

\* await fetch(...) resolves with a non-OK status
FetchNotOk(c) ==
    /\ pc[c] = "fetch" /\ sig[c] # "aborted"
    /\ Failed(c)
    /\ Finish(c, "failed")

\* await fetch(...) resolves with an OK status; response.json() starts
FetchOk(c) ==
    /\ pc[c] = "fetch" /\ sig[c] # "aborted"
    /\ pc' = [pc EXCEPT ![c] = "json"]
    /\ UNCHANGED <<store, mapVars, storeVars, flagVars, sig, awaiter, lastOutcome, lastHadData, dataBefore,
                   errorBefore, writesBefore, ghostVars, streamVars, pollVars>>

\* await response.json() rejects with AbortError
JsonAbort(c) ==
    /\ pc[c] = "json" /\ sig[c] = "aborted"
    /\ Aborted(c)
    /\ Finish(c, "cancelled")

\* await response.json() rejects: the body is not JSON
JsonReject(c) ==
    /\ pc[c] = "json" /\ sig[c] # "aborted"
    /\ Failed(c)
    /\ Finish(c, "failed")

\* await response.json() resolves with a body
JsonResolve(c, p) ==
    /\ pc[c] = "json" /\ sig[c] # "aborted"
    /\ Resolved(c, p)
    /\ Finish(c, IF store # "jpmorgan" /\ ParseThrows(store, p) THEN "failed" ELSE "ok")

\* ------------------------------------------------------------- push channels
\* Mutant: the channel is opened without the immediate fetch.
ConnectWithoutFetch ==
    /\ FreeCalls # {}
    /\ eventSource' = NextCall
    /\ openSources' = openSources \cup {NextCall}
    /\ streamConnected' = TRUE
    /\ UNCHANGED <<storeVars, flagVars, callVars, ghostVars>>

\* The body of startRiskStream / connectGdeltStream past its guard: an
\* immediate fetch, a new EventSource, streamConnected = true.
Connect ==
    /\ FreeCalls # {}
    /\ Begin(NextCall, "none", "none")
    /\ eventSource' = NextCall
    /\ openSources' = openSources \cup {NextCall}
    /\ streamConnected' = TRUE

\* Mutant: start opens a channel whether or not one is open.
StartStreamUnguarded ==
    /\ store \in StreamStores
    /\ Connect /\ UNCHANGED timers
    /\ UNCHANGED <<store, mapVars, pollVars>>

\* startRiskStream() / startGdeltStream()
StartStream ==
    /\ store \in StreamStores
    /\ IF eventSource # 0
       THEN UNCHANGED <<storeVars, flagVars, callVars, ghostVars, streamVars>>
       ELSE Connect /\ UNCHANGED timers
    /\ UNCHANGED <<store, mapVars, pollVars>>

\* stopRiskStream() / stopGdeltStream()
StopStream ==
    /\ store \in StreamStores
    /\ openSources' = openSources \ {eventSource}
    /\ eventSource' = 0
    /\ streamConnected' = FALSE
    /\ UNCHANGED <<store, mapVars, storeVars, flagVars, callVars, ghostVars, timers, pollVars>>

\* The data a push message may carry; the handler takes no argument.
Messages == {"", "risk_updated", "{}"}

\* source.onmessage
OnMessage(k, m) ==
    /\ k \in openSources
    /\ FreeCalls # {}
    /\ Begin(NextCall, "none", "none")
    /\ UNCHANGED <<store, mapVars, streamVars, pollVars>>

\* source.onerror of the risk store
RiskOnError(k) ==
    /\ streamConnected' = FALSE
    /\ UNCHANGED <<eventSource, openSources, timers>>

\* source.onerror of the GDELT store
GdeltOnError(k) ==
    /\ streamConnected' = FALSE
    /\ openSources' = openSources \ {k}
    /\ eventSource' = 0
    /\ timers' = Append(timers, [ms |-> GDELT_RECONNECT_DELAY_MS])

OnError(k) ==
    /\ k \in openSources
    /\ IF store = "risk" THEN RiskOnError(k) ELSE GdeltOnError(k)
    /\ UNCHANGED <<store, mapVars, storeVars, flagVars, callVars, ghostVars, pollVars>>

\* The reconnect timeout fires: connectGdeltStream()
Reconnect ==
    /\ timers # <<>>
    /\ timers' = Tail(timers)
    /\ IF eventSource # 0
       THEN UNCHANGED <<storeVars, flagVars, callVars, ghostVars,
                        streamConnected, eventSource, openSources>>
       ELSE Connect
    /\ UNCHANGED <<store, mapVars, pollVars>>

\* ---------------------------------------------------------------- radar polls
\* if (pollTimer) { clearInterval(pollTimer); pollTimer = null }
ClearPollTimer ==
    /\ intervals' = {i \in intervals : i.id # pollTimer}
    /\ pollTimer' = 0

\* startRadarPolling(polling) up to its await
StartRadarPolling(polling) ==
    /\ store = "radar"
    /\ FreeCalls # {}
    /\ ClearPollTimer
    /\ Begin(NextCall, "none", IF polling THEN "polling" ELSE "once")
    /\ UNCHANGED <<store, mapVars, streamVars>>

\* stopRadarPolling()
StopRadarPolling ==
    /\ store = "radar"
    /\ ClearPollTimer
    /\ UNCHANGED <<store, mapVars, storeVars, flagVars, callVars, ghostVars, streamVars>>

\* An interval fires: fetchRadar()
PollTick(i) ==
    /\ i \in intervals
    /\ FreeCalls # {}
    /\ Begin(NextCall, "none", "none")
    /\ UNCHANGED <<store, mapVars, streamVars, pollVars>>

\* ------------------------------------------------------------ specifications
\* The awaits of a call whose caller holds no controller.
Settle ==
    \/ \E c \in Calls : FetchReject(c)
    \/ \E c \in Calls : FetchNotOk(c)
    \/ \E c \in Calls : FetchOk(c)
    \/ \E c \in Calls : JsonReject(c)
    \/ \E c \in Calls : \E p \in Payloads(store) : JsonResolve(c, p)

\* Any store, refreshed by callers with and without a controller.
Next ==
    \/ \E signalled \in BOOLEAN : Refresh(signalled)
    \/ \E c \in Calls : Abort(c)
    \/ \E c \in Calls : FetchAbort(c)
    \/ \E c \in Calls : JsonAbort(c)
    \/ Settle

Spec == Init /\ [][Next]_vars

\* A change-detecting store at rest after refreshes that have returned: one
\* success, or two successes of which the second was a detected change.
EventInit ==
    /\ \E s \in ChangeStores : \E successes \in 1 .. 2 :
          LET first == IF s = "risk" THEN <<RiskItem(1, 10)>> ELSE <<>>
              second == <<CHOOSE x \in ItemsOf(s) : s = "risk" => x = RiskItem(1, 85)>>
              items == IF successes = 1 THEN first ELSE second
          IN /\ store = s
             /\ data = items
             /\ lastSnapshot = Some(Digest(s, GDELT_DEFAULT_QUERY, items))
             /\ lastEvent = IF successes = 2
                            THEN Some(ChangeEvent(s, 1, GDELT_DEFAULT_QUERY))
                            ELSE None
             /\ lastOutcome = "ok"
             /\ lastHadData = (successes = 2 /\ first # <<>>)
             /\ nWrites = successes
             /\ nSuccess = successes
             /\ emitted = IF successes = 2 THEN 1 ELSE 0
    /\ query = GDELT_DEFAULT_QUERY
    /\ loading = FALSE
    /\ error = NULL
    /\ streamConnected = FALSE
    /\ pc = [c \in Calls |-> "idle"]
    /\ sig = [c \in Calls |-> "none"]
    /\ awaiter = [c \in Calls |-> "none"]
    /\ dataBefore = [c \in Calls |-> <<>>]
    /\ errorBefore = [c \in Calls |-> NULL]
    /\ writesBefore = [c \in Calls |-> 0]
    /\ eventSource = 0
    /\ openSources = {}
    /\ timers = <<>>
    /\ pollTimer = 0
    /\ intervals = {}
    /\ NoMap

EventSpec == EventInit /\ [][Next]_vars

\* A stream-backed store driven by its push channel.
StreamInit == (\E s \in StreamStores : InitStore(s)) /\ NoMap

StreamNext ==
    \/ StartStream
    \/ StopStream
    \/ \E k \in openSources : \E m \in Messages : OnMessage(k, m)
    \/ \E k \in openSources : OnError(k)
    \/ Reconnect
    \/ Settle

StreamSpec == StreamInit /\ [][StreamNext]_vars

\* The GDELT store just after stopGdeltStream() has returned, with the
\* network down: the stream was started, its first fetch was rejected, the
\* channel's error closed it and armed the reconnect timeout, which is still
\* pending. No startGdeltStream() call follows.
AfterStopInit ==
    /\ store = "gdelt"
    /\ data = <<>>
    /\ query = GDELT_DEFAULT_QUERY
    /\ loading = FALSE
    /\ error = ErrorMessage("gdelt")
    /\ streamConnected = FALSE
    /\ lastEvent = None
    /\ lastSnapshot = None
    /\ pc = [c \in Calls |-> "idle"]
    /\ sig = [c \in Calls |-> "none"]
    /\ awaiter = [c \in Calls |-> "none"]
    /\ lastOutcome = "failed"
    /\ lastHadData = FALSE
    /\ dataBefore = [c \in Calls |-> <<>>]
    /\ errorBefore = [c \in Calls |-> NULL]
    /\ writesBefore = [c \in Calls |-> 0]
    /\ nWrites = 0
    /\ nSuccess = 0
    /\ emitted = 0
    /\ eventSource = 0
    /\ openSources = {}
    /\ timers = <<[ms |-> GDELT_RECONNECT_DELAY_MS]>>
    /\ pollTimer = 0
    /\ intervals = {}
    /\ NoMap

AfterStopNext ==
    \/ StopStream
    \/ \E k \in openSources : \E m \in Messages : OnMessage(k, m)
    \/ \E k \in openSources : OnError(k)
    \/ Reconnect
    \/ Settle

AfterStopSpec == AfterStopInit /\ [][AfterStopNext]_vars

\* The radar store driven by its poll functions.
RadarInit == InitStore("radar") /\ NoMap

RadarNext ==
    \/ \E polling \in BOOLEAN : StartRadarPolling(polling)
    \/ StopRadarPolling
    \/ \E i \in intervals : PollTick(i)
    \/ Settle

RadarSpec == RadarInit /\ [][RadarNext]_vars

\* The radar store just after stopRadarPolling() has returned while a
\* startRadarPolling call awaits its first fetch, on a store that is fresh or
\* holds an earlier snapshot: the stop found no timer to clear or cleared it.
\* No startRadarPolling call follows.
PollStoppedInit ==
    /\ store = "radar"
    /\ \E held \in {ParseItems("radar", p) : p \in Payloads("radar")} :
          /\ data = held
          /\ dataBefore = [c \in Calls |-> IF c = 1 THEN held ELSE <<>>]
          /\ lastOutcome = IF held = <<>> THEN "none" ELSE "ok"
          /\ nWrites = IF held = <<>> THEN 0 ELSE 1
          /\ nSuccess = IF held = <<>> THEN 0 ELSE 1
          /\ writesBefore = [c \in Calls |-> IF c = 1 /\ held # <<>> THEN 1 ELSE 0]
    /\ \E aw \in {"polling", "once"} :
          awaiter = [c \in Calls |-> IF c = 1 THEN aw ELSE "none"]
    /\ query = GDELT_DEFAULT_QUERY
    /\ loading = TRUE
    /\ error = NULL
    /\ streamConnected = FALSE
    /\ lastEvent = None
    /\ lastSnapshot = None
    /\ pc = [c \in Calls |-> IF c = 1 THEN "fetch" ELSE "idle"]
    /\ sig = [c \in Calls |-> "none"]
    /\ lastHadData = FALSE
    /\ errorBefore = [c \in Calls |-> NULL]
    /\ emitted = 0
    /\ eventSource = 0
    /\ openSources = {}
    /\ timers = <<>>
    /\ pollTimer = 0
    /\ intervals = {}
    /\ NoMap

PollStoppedNext ==
    \/ StopRadarPolling
    \/ \E i \in intervals : PollTick(i)
    \/ Settle

PollStoppedSpec == PollStoppedInit /\ [][PollStoppedNext]_vars

\* ---------------------------------------------------------------- map layers
PLANE_SIZE == 20
MIN_DOT_SIZE == 8
MAX_DOT_SIZE == 24

\* The ArcGIS bindings and the Cesium risk binding.
LayerKinds == {"risk", "price", "jpmorgan", "travel", "gdelt", "radar", "cesium_risk"}
\* Bindings whose mount effect starts the frame loop / whose update effect does.
MountLoopKinds == {"risk", "cesium_risk"}
UpdateLoopKinds == {"gdelt"}
\* Bindings that register a pointer-move handler.
HoverKinds == {"risk", "price", "jpmorgan", "travel"}
\* Bindings whose mount effect has no `layerRef.current` guard.
UnguardedMountKinds == {"price", "jpmorgan"}

StoreOf(k) == IF k = "cesium_risk" THEN "risk" ELSE k

\* Two records of each domain, the second with an unusable coordinate.
RiskPoints ==
    <<[id |-> 1, latitude |-> JsNum(1), longitude |-> JsNum(103), risk_level |-> 85],
      [id |-> 2, latitude |-> JsNull, longitude |-> JsNum(139), risk_level |-> 10]>>
PricePoints ==
    <<[country |-> "JP", latitude |-> JsNum(35), longitude |-> JsNum(139)],
      [country |-> "SG", latitude |-> JsNum(1), longitude |-> JsUndefined]>>
OfficePoints ==
    <<[id |-> 1, latitude |-> JsNum(22), longitude |-> JsNum(114)],
      [id |-> 11, latitude |-> JsUndefined, longitude |-> JsUndefined]>>
GdeltHotspots ==
    <<[latitude |-> JsNum(1), longitude |-> JsNum(103), count |-> 4],
      [latitude |-> JsNull, longitude |-> JsNum(139), count |-> 1]>>
\* Flight records as fetchRadar stores them: Number(undefined) is NaN.
RadarStates ==
    LET located == CHOOSE r \in RadarRaws : r.latitude.t = "number"
        unlocated == CHOOSE r \in RadarRaws : r.latitude.t # "number"
    IN ParseItems("radar", Body("array", <<located, unlocated>>, UNDEFINED))
\* Country codes are strings of characters, so that case and blanks are seen.
CN_TW == <<"C", "N", "-", "T", "W">>
JP == <<"J", "P">>
KR == <<"K", "R">>
SG == <<"S", "G">>
TH == <<"T", "H">>
\* Advisory records: one whose code needs normalising, one without a level,
\* one with a level outside 1..4 and one of a region without boundary; SG has
\* no record.
TravelAdvisories ==
    <<[country |-> <<" ", "j", "p">>, level |-> JsNum(2)],
      [country |-> KR, level |-> JsNull],
      [country |-> TH, level |-> JsNum(5)],
      [country |-> CN_TW, level |-> JsNum(3)]>>
\* The country codes the choropleth draws (five of the source's sorted list).
APAC_ISO2_CODES == <<CN_TW, JP, KR, SG, TH>>
\* The features of the boundary dataset: its code property and the number of
\* polygons of its geometry (a MultiPolygon has several). None carries CN-TW.
WorldFeatures ==
    <<[iso_a2 |-> <<"F", "R">>, type |-> "Polygon", polygons |-> 1],
      [iso_a2 |-> JP, type |-> "MultiPolygon", polygons |-> 2],
      [iso_a2 |-> KR, type |-> "Polygon", polygons |-> 1],
      [iso_a2 |-> <<"s", "g">>, type |-> "Polygon", polygons |-> 1],
      [iso_a2 |-> TH, type |-> "Polygon", polygons |-> 1]>>

RecordsOf(k) ==
    CASE k \in {"risk", "cesium_risk"} -> RiskPoints
      [] k = "price" -> PricePoints
      [] k = "jpmorgan" -> OfficePoints
      [] k = "gdelt" -> GdeltHotspots
      [] k = "radar" -> RadarStates
      [] OTHER -> TravelAdvisories

\* The snapshots a binding is given: the store's initial empty list and the
\* list a fetch has written; the choropleth is followed on the fetched list,
\* which has regions with and without a record.
LayerSnapshots(k) == IF k = "travel" THEN {RecordsOf(k)} ELSE {<<>>, RecordsOf(k)}

\* typeof v === 'number'
TypeofNumber(v) == v.t \in {"number", "NaN"}
\* Number.isFinite(v)
IsFinite(v) == v.t = "number"

\* typeof item?.latitude === 'number' && typeof item?.longitude === 'number'
IsValid(item) == TypeofNumber(item.latitude) /\ TypeofNumber(item.longitude)

Min(a, b) == IF a <= b THEN a ELSE b
Max(a, b) == IF a >= b THEN a ELSE b
\* Math.round(n / d) for d > 0
RoundDiv(n, d) == (2 * n + d) \div (2 * d)
\* Math.log2(n), exact on the powers of two the hotspot counts are taken from
RECURSIVE Log2(_)
Log2(n) == IF n <= 1 THEN 0 ELSE 1 + Log2(n \div 2)

\* lerpColor(color1, color2, n / d)
LerpColor(c1, c2, n, d) ==
    [i \in 1 .. 3 |-> RoundDiv(c1[i] * d + (c2[i] - c1[i]) * n, d)]

\* riskColor(risk): green to amber below 50, amber to red from 50
riskColor(risk) ==
    LET clamped == Max(0, Min(100, risk))
        low == <<34, 197, 94>>
        mid == <<245, 158, 11>>
        high == <<239, 68, 68>>
    IN IF clamped < 50
       THEN LerpColor(low, mid, clamped, 50)
       ELSE LerpColor(mid, high, clamped - 50, 50)

\* String.prototype.toUpperCase, on the letters the codes use
UpperChar(c) ==
    CASE c = "j" -> "J"
      [] c = "p" -> "P"
      [] c = "s" -> "S"
      [] c = "g" -> "G"
      [] OTHER -> c
ToUpperCase(str) == [i \in 1 .. Len(str) |-> UpperChar(str[i])]

\* String.prototype.trim
RECURSIVE Trim(_)
Trim(str) ==
    IF str = <<>> THEN str
    ELSE IF Head(str) = " " THEN Trim(Tail(str))
    ELSE IF str[Len(str)] = " " THEN Trim(SubSeq(str, 1, Len(str) - 1))
    ELSE str

\* LEVEL_COLORS: #22c55e, #eab308, #f97316, #ef4444
LEVEL_COLORS ==
    [n \in 1 .. 4 |-> CASE n = 1 -> <<34, 197, 94>>
                        [] n = 2 -> <<234, 179, 8>>
                        [] n = 3 -> <<249, 115, 22>>
                        [] n = 4 -> <<239, 68, 68>>]

\* The "no data" colour, #6b7280
NEUTRAL_COLOR == <<107, 114, 128>>

\* getLevelColor(level): LEVEL_COLORS[level] ?? '#6b7280'
getLevelColor(level) ==
    IF level.t = "null" \/ (level.t = "number" /\ (level.n < 1 \/ level.n > 4))
    THEN NEUTRAL_COLOR
    ELSE IF level.t = "number" /\ level.n \in DOMAIN LEVEL_COLORS
         THEN LEVEL_COLORS[level.n]
         ELSE NEUTRAL_COLOR

\* symbolAngle(trueTrack)
symbolAngle(trueTrack) ==
    CASE trueTrack.t = "null" -> JsNum(270)
      [] trueTrack.t = "number" -> JsNum(270 - trueTrack.n)
      [] OTHER -> JsNaN

\* pointSymbolForMentions(mentions).size
DotSize(mentions) ==
    Min(MAX_DOT_SIZE, Max(MIN_DOT_SIZE, MIN_DOT_SIZE + Log2(Max(1, mentions)) * 3))

\* The primitive the update phase creates for a record.
Graphic(k, item) ==
    CASE k = "risk" ->
           [item |-> item, size |-> 40 + RoundDiv(Min(item.risk_level, 100) * 30, 100),
            color |-> riskColor(item.risk_level), angle |-> JsNum(0)]
      [] k = "cesium_risk" ->
           [item |-> item, size |-> 24 + RoundDiv(Min(item.risk_level, 100) * 22, 100),
            color |-> riskColor(item.risk_level), angle |-> JsNum(0)]
      [] k = "price" ->
           [item |-> item, size |-> 12, color |-> <<212, 175, 55>>, angle |-> JsNum(0)]
      [] k = "jpmorgan" ->
           [item |-> item, size |-> 14, color |-> <<0, 102, 204>>, angle |-> JsNum(0)]
      [] k = "gdelt" ->
           [item |-> item, size |-> DotSize(item.count), color |-> <<180, 100, 90>>,
            angle |-> JsNum(0)]
      [] k = "radar" ->
           [item |-> item, size |-> PLANE_SIZE, color |-> <<56, 189, 248>>,
            angle |-> symbolAngle(item.true_track)]
      [] OTHER ->
           [item |-> item, size |-> 0, color |-> getLevelColor(item.level),
            angle |-> JsNum(0), alpha |-> IF item.level = JsNull THEN 10 ELSE 40]

\* The primitives one synchronous rebuild creates from a snapshot.
PointGraphics(k, items) ==
    LET valid == SelectSeq(items, IsValid)
    IN [i \in 1 .. Len(valid) |-> Graphic(k, valid[i])]

\* Mutant: the advisory is looked up by the code as the record spells it.
findAdvisoryExact(items, iso2) ==
    LET hits == SelectSeq(items, LAMBDA x : x.country = iso2)
    IN IF hits = <<>> THEN None ELSE Some(hits[Len(hits)])

\* advisoryByIso2.get(iso2.toUpperCase().trim()) ?? null, the map being filled
\* from the records with a non-empty code under the same normalisation
findAdvisory(items, iso2) ==
    LET key == Trim(ToUpperCase(iso2))
        hits == SelectSeq(items, LAMBDA x : x.country # <<>>
                                            /\ Trim(ToUpperCase(x.country)) = key)
    IN IF hits = <<>> THEN None ELSE Some(hits[Len(hits)])

\* matchByIso2(feature, iso2), on the code property of the dataset
matchByIso2(feature, iso2) == ToUpperCase(feature.iso_a2) = ToUpperCase(iso2)

\* The polygons one pass of the loop adds for a country: none when the dataset
\* has no feature for it, else one per polygon of the first matching feature.
CountryPolygons(items, iso2) ==
    LET found == SelectSeq(WorldFeatures, LAMBDA f : matchByIso2(f, iso2))
        advisory == findAdvisory(items, iso2)
        item == IF advisory = None THEN [country |-> iso2, level |-> JsNull]
                ELSE advisory[1]
    IN IF found = <<>>
       THEN <<>>
       ELSE [p \in 1 .. found[1].polygons |-> Graphic("travel", item)]

\* The polygons loadCountryBoundaries adds once the boundary dataset is read.
RECURSIVE CountriesFrom(_, _)
CountriesFrom(items, i) ==
    IF i > Len(APAC_ISO2_CODES) THEN <<>>
    ELSE CountryPolygons(items, APAC_ISO2_CODES[i]) \o CountriesFrom(items, i + 1)
CountryGraphics(items) == CountriesFrom(items, 1)

\* The binding and its viewport as one record, so that the effects of one
\* commit can be applied one after the other.
Cur ==
    [mounted |-> mounted, snapshot |-> layerData, enabled |-> enabled,
     viewRef |-> viewRef, views |-> views, ownView |-> ownView,
     destroyCalls |-> destroyCalls, layerRef |-> layerRef, layers |-> layers,
     ownLayer |-> ownLayer, mapLayers |-> mapLayers, graphics |-> graphics,
     hoverHandlerRef |-> hoverHandlerRef, clickHandlerRef |-> clickHandlerRef,
     handlers |-> handlers, animationRef |-> animationRef, rafs |-> rafs,
     frames |-> frames, tickCleanup |-> tickCleanup, rebuilds |-> rebuilds,
     lastRun |-> lastRun, viewLog |-> viewLog, worldLoaded |-> worldLoaded]

Set(b) ==
    /\ mounted' = b.mounted /\ layerData' = b.snapshot /\ enabled' = b.enabled
    /\ viewRef' = b.viewRef /\ views' = b.views /\ ownView' = b.ownView
    /\ destroyCalls' = b.destroyCalls /\ layerRef' = b.layerRef /\ layers' = b.layers
    /\ ownLayer' = b.ownLayer /\ mapLayers' = b.mapLayers /\ graphics' = b.graphics
    /\ hoverHandlerRef' = b.hoverHandlerRef /\ clickHandlerRef' = b.clickHandlerRef
    /\ handlers' = b.handlers /\ animationRef' = b.animationRef /\ rafs' = b.rafs
    /\ frames' = b.frames /\ tickCleanup' = b.tickCleanup /\ rebuilds' = b.rebuilds
    /\ lastRun' = b.lastRun /\ viewLog' = b.viewLog /\ worldLoaded' = b.worldLoaded
    /\ UNCHANGED kind

IsDestroyed(b, v) == b.destroyCalls[v] > 0

\* ------------------------------------------------------- viewport controller
\* Mutant: teardown leaves the shared reference set.
ViewerCleanupKeepsRef(b) ==
    IF b.ownView = 0
    THEN b
    ELSE [b EXCEPT !.destroyCalls[b.ownView] = @ + 1,
                   !.mapLayers = {p \in @ : p[1] # b.ownView},
                   !.ownView = 0]

\* useArcGISViewer / useCesiumViewer: the effect's body
ViewerEffect(b, hasContainer) ==
    IF ~hasContainer
    THEN b
    ELSE [b EXCEPT !.views = b.views + 1,
                   !.viewRef = b.views + 1,
                   !.ownView = b.views + 1]

\* useArcGISViewer / useCesiumViewer: the effect's cleanup; the Cesium one
\* calls destroy() without asking whether the viewer is destroyed.
ViewerCleanup(b) ==
    IF b.ownView = 0
    THEN b
    ELSE LET view == b.ownView
             destroy == kind = "cesium_risk" \/ ~IsDestroyed(b, view)
         IN [b EXCEPT !.destroyCalls[view] = IF destroy THEN @ + 1 ELSE @,
                      !.viewLog = IF destroy
                                  THEN @ \cup {<<"destroy", IsDestroyed(b, view)>>}
                                  ELSE @,
                      !.mapLayers = {p \in @ : p[1] # view},
                      !.viewRef = 0,
                      !.ownView = 0]

\* ------------------------------------------------------------ layer binding
Handler(ev, view, layer) == [ev |-> ev, view |-> view, layer |-> layer]

\* The mount effect: a graphic layer, the handlers and, in the risk bindings,
\* the frame loop.
LayerMountEffect(b) ==
    LET view == b.viewRef
        layer == b.layers + 1
        id == b.frames + 1
        loop == kind \in MountLoopKinds
    IN IF view = 0 \/ (kind \notin UnguardedMountKinds /\ b.layerRef # 0)
       THEN b
       ELSE [b EXCEPT
               !.layers = layer,
               !.layerRef = layer,
               !.ownLayer = layer,
               !.mapLayers = @ \cup {<<view, layer>>},
               !.viewLog = @ \cup {<<"add", IsDestroyed(b, view)>>},
               !.handlers = @ \cup {Handler("click", view, layer)}
                              \cup IF kind \in HoverKinds
                                   THEN {Handler("pointer-move", view, layer)}
                                   ELSE {},
               !.hoverHandlerRef = IF kind \in HoverKinds THEN layer ELSE @,
               !.clickHandlerRef = layer,
               !.frames = IF loop THEN id ELSE @,
               !.animationRef = IF loop THEN id ELSE @,
               !.rafs = IF loop THEN @ \cup {id} ELSE @]

\* Mutant: the cleanup leaves the frame loop running.
LayerCleanupKeepsLoop(b) ==
    IF b.ownLayer = 0
    THEN b
    ELSE [b EXCEPT !.handlers = {}, !.hoverHandlerRef = 0, !.clickHandlerRef = 0,
                   !.layerRef = 0, !.ownLayer = 0]

\* Mutant: the cleanup removes the layer through the view its effect closed
\* over, without asking whether that view is destroyed.
LayerCleanupThroughClosure(b) ==
    IF b.ownLayer = 0
    THEN b
    ELSE [b EXCEPT !.rafs = {}, !.animationRef = 0,
                   !.handlers = {}, !.hoverHandlerRef = 0, !.clickHandlerRef = 0,
                   !.mapLayers = {p \in @ : p[2] # b.ownLayer},
                   !.viewLog = @ \cup {<<"remove", b.viewRef = 0>>},
                   !.layerRef = 0, !.ownLayer = 0]

\* The mount effect's cleanup. The Cesium binding removes the data source its
\* effect closed over and leaves animationRef as it is.
LayerCleanup(b) ==
    IF b.ownLayer = 0
    THEN b
    ELSE LET currentView == b.viewRef
             layer == IF kind = "cesium_risk" THEN b.ownLayer ELSE b.layerRef
             remove == currentView # 0 /\ ~IsDestroyed(b, currentView) /\ layer # 0
             cancel == kind \in MountLoopKinds /\ b.animationRef # 0
         IN [b EXCEPT
               !.rafs = IF cancel THEN @ \ {b.animationRef} ELSE @,
               !.animationRef = IF cancel /\ kind = "risk" THEN 0 ELSE @,
               !.handlers =
                   {h \in @ : ~ \/ h.ev = "pointer-move" /\ h.layer = b.hoverHandlerRef
                                \/ h.ev = "click" /\ h.layer = b.clickHandlerRef},
               !.hoverHandlerRef = 0,
               !.clickHandlerRef = 0,
               !.mapLayers = IF remove THEN @ \ {<<currentView, layer>>} ELSE @,
               !.viewLog = IF remove
                           THEN @ \cup {<<"remove", IsDestroyed(b, currentView)>>}
                           ELSE @,
               !.layerRef = 0,
               !.ownLayer = 0]

\* What the update phase is remembered by: its layer and props, whether the run
\* before it had the same layer and props, and whether every rebuild then in
\* flight was started with them too (enabled, on this layer, from this snapshot).
Run(b, layer) ==
    Some([layer |-> layer, snapshot |-> b.snapshot, enabled |-> b.enabled,
          again |-> /\ b.lastRun # None
                    /\ b.lastRun[1].layer = layer
                    /\ b.lastRun[1].snapshot = b.snapshot
                    /\ b.lastRun[1].enabled = b.enabled,
          alone |-> \A i \in 1 .. Len(b.rebuilds) :
                       /\ b.enabled
                       /\ b.rebuilds[i].layer = layer
                       /\ b.rebuilds[i].items = b.snapshot])

\* graphicsLayer.removeAll()
RemoveAll(b, layer) == [b EXCEPT !.graphics[layer] = <<>>, !.lastRun = Run(b, layer)]

\* The update effect of the risk, price, JP Morgan and Cesium risk bindings.
UpdatePoints(b) ==
    LET layer == b.layerRef
        cleared == RemoveAll(b, layer)
    IN IF layer = 0
       THEN b
       ELSE IF ~b.enabled \/ (kind = "risk" /\ b.viewRef = 0)
            THEN cleared
            ELSE [cleared EXCEPT !.graphics[layer] = PointGraphics(kind, b.snapshot)]

\* The update effect of the GDELT and radar bindings; the GDELT one starts the
\* frame loop and returns a cleanup.
UpdateDots(b) ==
    LET layer == b.layerRef
        cleared == RemoveAll(b, layer)
        id == b.frames + 1
        loop == kind \in UpdateLoopKinds
    IN IF b.viewRef = 0 \/ layer = 0
       THEN b
       ELSE IF ~b.enabled
            THEN cleared
            ELSE [cleared EXCEPT
                    !.graphics[layer] = PointGraphics(kind, b.snapshot),
                    !.frames = IF loop THEN id ELSE @,
                    !.animationRef = IF loop THEN id ELSE @,
                    !.rafs = IF loop THEN @ \cup {id} ELSE @,
                    !.tickCleanup = loop]

\* The update effect of the travel advisory binding: loadCountryBoundaries()
\* clears the layer and runs on to its first await.
UpdateCountries(b) ==
    LET layer == b.layerRef
        cleared == RemoveAll(b, layer)
    IN IF layer = 0
       THEN b
       ELSE IF ~b.enabled
            THEN cleared
            ELSE [cleared EXCEPT
                    !.rebuilds = Append(@, [layer |-> layer, items |-> b.snapshot,
                                            pc |-> "fetch"])]

UpdateEffect(b) ==
    CASE kind \in {"gdelt", "radar"} -> UpdateDots(b)
      [] kind = "travel" -> UpdateCountries(b)
      [] OTHER -> UpdatePoints(b)

\* The update effect's cleanup: () => cancelAnimationFrame(rafId)
UpdateCleanup(b) ==
    IF b.tickCleanup
    THEN [b EXCEPT !.rafs = @ \ {b.animationRef}, !.tickCleanup = FALSE]
    ELSE b

\* Room for the objects one commit may construct.
Room ==
    /\ views < MaxMounts
    /\ layers < MaxMounts
    /\ frames < MaxFrames
    /\ Len(rebuilds) < MaxRebuilds

\* The chat store is on neither side of the map: both frames carry it.
storeSide == <<store, storeVars, flagVars, callVars, ghostVars, streamVars, pollVars,
               chatVars>>
\* What the binding's actions leave alone.
offLayer == <<storeSide, pointerVars, trackerVars, ringVars, codeVars>>
\* What the pointer handlers leave alone.
offPointer == <<storeSide, bindingVars, trackerVars, ringVars, codeVars>>

\* The map component mounts: the effects run in the order of their hooks.
Mount(items, on, hasContainer) ==
    /\ ~mounted
    /\ Room
    /\ Set(UpdateEffect(LayerMountEffect(ViewerEffect(
           [Cur EXCEPT !.mounted = TRUE, !.snapshot = items, !.enabled = on],
           hasContainer))))
    /\ UNCHANGED offLayer

\* The map component unmounts (or Strict Mode unmounts it to mount it again):
\* the cleanups run in the order of their hooks.
Unmount ==
    /\ mounted
    /\ Set(UpdateCleanup(LayerCleanup(ViewerCleanup([Cur EXCEPT !.mounted = FALSE]))))
    /\ UNCHANGED offLayer

\* A render with changed props: `items` holds a new array or is None for the
\* same array, `on` is the enabled flag, `selectChanged` tells a new onSelect. The cleanups of
\* the effects whose dependencies changed run first, then these effects.
Render(items, on, selectChanged) ==
    LET remount == selectChanged \/ (kind = "price" /\ on # enabled)
        rerun == items # None \/ on # enabled
        b0 == [Cur EXCEPT !.snapshot = IF items = None THEN @ ELSE items[1],
                          !.enabled = on]
        b1 == IF remount THEN LayerCleanup(b0) ELSE b0
        b2 == IF rerun THEN UpdateCleanup(b1) ELSE b1
        b3 == IF remount THEN LayerMountEffect(b2) ELSE b2
    IN /\ mounted
       /\ Room
       /\ remount \/ rerun
       /\ Set(IF rerun THEN UpdateEffect(b3) ELSE b3)
       /\ UNCHANGED offLayer

\* An animation frame: animate() of the risk bindings, tick() of the GDELT one,
\* which stops asking for frames once layerRef is null.
Frame(id) ==
    /\ id \in rafs
    /\ frames < MaxFrames
    /\ IF kind = "gdelt" /\ layerRef = 0
       THEN /\ rafs' = rafs \ {id}
            /\ UNCHANGED <<animationRef, frames>>
       ELSE /\ rafs' = (rafs \ {id}) \cup {frames + 1}
            /\ animationRef' = frames + 1
            /\ frames' = frames + 1
    /\ UNCHANGED <<kind, mounted, layerData, enabled, viewerVars, layerVars, tickCleanup,
                   rebuilds, lastRun, viewLog, worldLoaded, offLayer>>

Without(s, i) == SubSeq(s, 1, i - 1) \o SubSeq(s, i + 1, Len(s))

\* await fetch(worldGeoJsonUrl) resolves with an OK status
RebuildFetched(i) ==
    /\ rebuilds[i].pc = "fetch"
    /\ rebuilds' = [rebuilds EXCEPT ![i].pc = "json"]
    /\ UNCHANGED <<kind, mounted, layerData, enabled, viewerVars, layerVars, loopVars,
                   lastRun, viewLog, worldLoaded, offLayer>>

\* The fetch rejects or is not OK, or the body is no FeatureCollection: the
\* run returns without a primitive.
RebuildFailed(i) ==
    /\ rebuilds' = Without(rebuilds, i)
    /\ UNCHANGED <<kind, mounted, layerData, enabled, viewerVars, layerVars, loopVars,
                   lastRun, viewLog, worldLoaded, offLayer>>

\* await worldResponse.json() resolves: the loop over APAC_ISO2_CODES adds
\* each country's polygon to the layer the run closed over.
RebuildRendered(i) ==
    /\ rebuilds[i].pc = "json"
    /\ graphics' = [graphics EXCEPT
                      ![rebuilds[i].layer] = @ \o CountryGraphics(rebuilds[i].items)]
    /\ rebuilds' = Without(rebuilds, i)
    /\ worldLoaded' = TRUE
    /\ UNCHANGED <<kind, mounted, layerData, enabled, viewerVars, layerRef, layers, ownLayer,
                   mapLayers, hoverHandlerRef, clickHandlerRef, handlers, loopVars,
                   lastRun, viewLog, offLayer>>

LayerInit ==
    \E k \in LayerKinds :
        InitStore(StoreOf(k)) /\ InitBinding(k) /\ InitPointer /\ InitTracker
            /\ InitRing /\ InitCode /\ InitChat

LayerNext ==
    \/ \E items \in LayerSnapshots(kind) : \E on, hasContainer \in BOOLEAN :
          Mount(items, on, hasContainer)
    \/ Unmount
    \/ \E items \in {None} \cup {Some(x) : x \in LayerSnapshots(kind)} :
          \E on, selectChanged \in BOOLEAN :
             Render(items, on, selectChanged)
    \/ \E id \in rafs : Frame(id)
    \/ \E i \in 1 .. Len(rebuilds) : RebuildFetched(i)
    \/ \E i \in 1 .. Len(rebuilds) : RebuildFailed(i)
    \/ \E i \in 1 .. Len(rebuilds) : RebuildRendered(i)

LayerSpec == LayerInit /\ [][LayerNext]_vars

\* ------------------------------------------------------------ pointer events
\* The primitives of each layer that lie under the pointer positions followed.
Prims(k) == IF k = "price" THEN 1 .. 2 ELSE 1 .. 1
\* A hit-test response: for each layer, its primitive under the pointer or 0.
HitResults == {r \in [PointerKinds -> 0 .. 2] : \A k \in PointerKinds : r[k] \in Prims(k) \cup {0}}
ScreenXs == {10, 20}
RECT_LEFT == 100

\* The argument of onSelect: a selection, or None for onSelect(null).
Selection(k, g, x) == Some([type |-> k, item |-> g, x |-> RECT_LEFT + x])

\* view.on('pointer-move' | 'click'): every binding's handler runs and calls
\* view.hitTest(event). One event is followed at a time.
Dispatch(ev, results, x) ==
    /\ ~viewGone
    /\ pendingTests = {}
    /\ pointerEvent' = Some([ev |-> ev, results |-> results, x |-> x])
    /\ pendingTests' = PointerKinds
    /\ delivered' = <<>>
    /\ UNCHANGED <<hoverRef, shown, viewGone, offPointer>>

\* onSelect(arg), called by the binding k.
OnSelect(k, arg) == delivered' = Append(delivered, [by |-> k, arg |-> arg])

\* Mutant: the hit primitive is highlighted, the previous one is left as it is.
HoverPointKeepsPrevious(k, g, x) ==
    /\ hoverRef' = [hoverRef EXCEPT ![k] = g]
    /\ shown' = shown \cup (IF g = 0 THEN {} ELSE {<<k, g>>})
    /\ UNCHANGED delivered

\* The pointer-move callback of the risk, price and JP Morgan bindings: the
\* previous primitive goes back to idle, the hit one is highlighted.
HoverPoint(k, g, x) ==
    /\ hoverRef' = [hoverRef EXCEPT ![k] = g]
    /\ shown' = {p \in shown : ~(p[1] = k /\ hoverRef[k] # 0 /\ hoverRef[k] # g
                                  /\ p[2] = hoverRef[k])}
                   \cup (IF g = 0 THEN {} ELSE {<<k, g>>})
    /\ UNCHANGED delivered

\* The pointer-move callback of the travel advisory binding.
HoverCountry(k, g, x) ==
    /\ IF g # 0 /\ g # hoverRef[k]
       THEN /\ OnSelect(k, Selection(k, g, x))
            /\ hoverRef' = [hoverRef EXCEPT ![k] = g]
       ELSE IF g = 0 /\ hoverRef[k] # 0
            THEN /\ OnSelect(k, None)
                 /\ hoverRef' = [hoverRef EXCEPT ![k] = 0]
            ELSE UNCHANGED <<delivered, hoverRef>>
    /\ UNCHANGED shown

\* The click callback: the risk binding returns when a JP Morgan or price
\* primitive is among the results; the others look at their own layer only.
Click(k, results, x) ==
    IF k = "risk" /\ (results["jpmorgan"] # 0 \/ results["price"] # 0)
    THEN UNCHANGED delivered
    ELSE IF results[k] # 0
         THEN OnSelect(k, Selection(k, results[k], x))
         ELSE UNCHANGED delivered

\* Mutant: the callback runs without looking at view.destroyed.
ResolveUnguarded(k) ==
    /\ k \in pendingTests
    /\ pendingTests' = pendingTests \ {k}
    /\ LET e == pointerEvent[1]
       IN IF e.ev = "click"
          THEN Click(k, e.results, e.x) /\ UNCHANGED <<hoverRef, shown>>
          ELSE IF k = "travel"
               THEN HoverCountry(k, e.results[k], e.x)
               ELSE HoverPoint(k, e.results[k], e.x)
    /\ UNCHANGED <<pointerEvent, viewGone, offPointer>>

\* view.hitTest(event) resolves: the binding's .then callback
Resolve(k) ==
    /\ k \in pendingTests
    /\ pendingTests' = pendingTests \ {k}
    /\ LET e == pointerEvent[1]
       IN IF viewGone
          THEN UNCHANGED <<hoverRef, shown, delivered>>
          ELSE IF e.ev = "click"
               THEN Click(k, e.results, e.x) /\ UNCHANGED <<hoverRef, shown>>
               ELSE IF k = "travel"
                    THEN HoverCountry(k, e.results[k], e.x)
                    ELSE HoverPoint(k, e.results[k], e.x)
    /\ UNCHANGED <<pointerEvent, viewGone, offPointer>>

\* view.hitTest(event) rejects: .catch(() => {})
HitTestRejects(k) ==
    /\ k \in pendingTests
    /\ pendingTests' = pendingTests \ {k}
    /\ UNCHANGED <<hoverRef, shown, delivered, pointerEvent, viewGone,
                   offPointer>>

\* The viewport controller's teardown destroys the view.
DestroyView ==
    /\ ~viewGone
    /\ viewGone' = TRUE
    /\ UNCHANGED <<hoverRef, shown, delivered, pointerEvent, pendingTests,
                   offPointer>>

PointerInit == InitStore("risk") /\ NoMap

PointerNext ==
    \/ \E ev \in {"pointer-move", "click"} : \E results \in HitResults : \E x \in ScreenXs :
          Dispatch(ev, results, x)
    \/ \E k \in PointerKinds : Resolve(k)
    \/ \E k \in PointerKinds : HitTestRejects(k)
    \/ DestroyView

PointerSpec == PointerInit /\ [][PointerNext]_vars

\* Successive pointer-move events over one point layer, their hit-tests
\* settling in any order. pendingTests keeps every hit-test of the behaviour in
\* the order of its event: [g: the layer's primitive hit or 0, done].
MaxMoves == 3
HoverPrims == 1 .. 2

SettleTest(i) == pendingTests' = [pendingTests EXCEPT ![i].done = TRUE]

\* view.on('pointer-move'): the handler calls view.hitTest(event)
PointerMove(g) ==
    /\ ~viewGone
    /\ Len(pendingTests) < MaxMoves
    /\ pendingTests' = Append(pendingTests, [g |-> g, done |-> FALSE])
    /\ UNCHANGED <<hoverRef, shown, pointerEvent, delivered, viewGone, offPointer>>

\* A hit-test resolves: the .then callback of the pointer-move handler
HitResolves(i) ==
    /\ ~pendingTests[i].done
    /\ SettleTest(i)
    /\ IF viewGone
       THEN UNCHANGED <<hoverRef, shown, delivered>>
       ELSE HoverPoint(kind, pendingTests[i].g, 0)
    /\ UNCHANGED <<pointerEvent, viewGone, offPointer>>

\* A hit-test rejects: .catch(() => {})
HitRejects(i) ==
    /\ ~pendingTests[i].done
    /\ SettleTest(i)
    /\ UNCHANGED <<hoverRef, shown, delivered, pointerEvent, viewGone, offPointer>>

HoverInit ==
    /\ \E k \in PointKinds : InitStore(StoreOf(k)) /\ InitBinding(k)
    /\ hoverRef = [k \in PointerKinds |-> 0]
    /\ shown = {}
    /\ pointerEvent = None
    /\ pendingTests = <<>>
    /\ delivered = <<>>
    /\ viewGone = FALSE
    /\ InitTracker /\ InitRing /\ InitCode /\ InitChat

HoverNext ==
    \/ \E g \in HoverPrims \cup {0} : PointerMove(g)
    \/ \E i \in 1 .. Len(pendingTests) : HitResolves(i)
    \/ \E i \in 1 .. Len(pendingTests) : HitRejects(i)
    \/ DestroyView

HoverSpec == HoverInit /\ [][HoverNext]_vars

\* ------------------------------------------------------------ boundary rings
\* A closed ring of n vertices [lon, lat] or [lon, lat, alt], as GeoJSON has it.
Ring(n, withAlt) ==
    [i \in 1 .. n |->
        LET v == IF i = n THEN 1 ELSE i
        IN IF withAlt THEN <<v, 2 * v, 0>> ELSE <<v, 2 * v>>]

\* geometry.coordinates[0].map((coord) => [coord[0], coord[1]])
outerRing(coordinates) ==
    [i \in 1 .. Len(coordinates) |-> <<coordinates[i][1], coordinates[i][2]>>]

\* renderCountryGeometry builds the Polygon of one ring.
RenderRing ==
    /\ polygonRing = None
    /\ polygonRing' = Some(outerRing(geometryRing))
    /\ UNCHANGED <<geometryRing, codeVars, trackerVars, pointerVars, bindingVars, storeSide>>

RingInit ==
    /\ InitStore("travel") /\ InitBinding("travel") /\ InitPointer /\ InitTracker /\ InitCode
    /\ InitChat
    /\ \E n \in 1 .. MaxRing : \E withAlt \in BOOLEAN : geometryRing = Ring(n, withAlt)
    /\ polygonRing = None

RingNext == RenderRing

RingSpec == RingInit /\ [][RingNext]_vars

\* ------------------------------------------------------------- region codes
\* Mutant: the table maps KR to itself.
COUNTRY_CODE_TO_ISO2_KR ==
    [c \in {"KS", "KR", "JA", "JP"} |->
        CASE c = "KS" -> "KR" [] c = "KR" -> "KR" [] c = "JA" -> "JP" [] c = "JP" -> "JP"]

\* COUNTRY_CODE_TO_ISO2
COUNTRY_CODE_TO_ISO2 ==
    [c \in {"CE", "KN", "KS", "KR", "RS", "BM", "BD", "BG", "PP", "CB", "RP", "TT", "BP",
            "VM", "JA", "AU", "BN", "KH", "CH", "HK", "IN", "ID", "JP", "LA", "MY", "MM",
            "NZ", "KP", "PG", "PH", "RU", "SB", "SN", "LK", "TW", "TH", "TL", "VN"} |->
        CASE c = "CE" -> "LK" [] c = "KN" -> "KP" [] c = "KS" -> "KR" [] c = "KR" -> "KS"
          [] c = "RS" -> "RU" [] c = "BM" -> "MM" [] c = "BD" -> "BM" [] c = "BG" -> "BD"
          [] c = "PP" -> "PG" [] c = "CB" -> "KH" [] c = "RP" -> "PH" [] c = "TT" -> "TL"
          [] c = "BP" -> "SB" [] c = "VM" -> "VN" [] c = "JA" -> "JP" [] c = "CH" -> "CN"
          [] c = "SN" -> "SG" [] c = "TW" -> "CN-TW"
          [] OTHER -> c]

\* The codes looked up: the keys of the table, its other values, and spellings
\* that differ from a key in case or blanks.
CodeInputs ==
    DOMAIN COUNTRY_CODE_TO_ISO2
        \cup {"LK", "CN", "SG", "CN-TW", "kr", "ks", "Kr", "kS", " KR", "KR ", " KS", "KS ",
              "ja", "Ja", "JA ", "KOR", "K", "", "XX", "tw"}

\* COUNTRY_CODE_TO_ISO2[code]: the value of the key, or undefined
Lookup(table, c) == IF c \in DOMAIN table THEN table[c] ELSE UNDEFINED

ResolveCode ==
    /\ resolved = None
    /\ apiCode \in DOMAIN COUNTRY_CODE_TO_ISO2
    /\ resolved' = Some(Lookup(COUNTRY_CODE_TO_ISO2, apiCode))
    /\ UNCHANGED <<apiCode, ringVars, trackerVars, pointerVars, bindingVars, storeSide>>

\* A code that is no key of the table: the lookup yields undefined.
ResolveUnknown ==
    /\ resolved = None
    /\ apiCode \notin DOMAIN COUNTRY_CODE_TO_ISO2
    /\ resolved' = Some(Lookup(COUNTRY_CODE_TO_ISO2, apiCode))
    /\ UNCHANGED <<apiCode, ringVars, trackerVars, pointerVars, bindingVars, storeSide>>

CodeInit ==
    /\ InitStore("travel") /\ InitBinding("travel") /\ InitPointer /\ InitTracker /\ InitRing
    /\ InitChat
    /\ apiCode \in CodeInputs
    /\ resolved = None

CodeNext == ResolveCode \/ ResolveUnknown

CodeSpec == CodeInit /\ [][CodeNext]_vars

\* ------------------------------------------------------------ popup tracker
\* Screen coordinates are counted in quarters of a pixel: 0.5 px is 2.
EPSILON == 2

Abs(n) == IF n < 0 THEN 0 - n ELSE n

\* Where an anchor can project to, and the selections handleSelect is given:
\* position 1 is the selected item's anchor, 0 a selection without one.
ScreenPoints == {[x |-> x, y |-> y] : x \in 0 .. 3, y \in {0, 2}}
FewPoints == {[x |-> 0, y |-> 0], [x |-> 2, y |-> 0]}
Selections ==
    {[x |-> p.x, y |-> p.y, position |-> a] : p \in ScreenPoints, a \in {0, 1}}

\* What the map component's own actions leave alone.
offTracker == <<storeSide, bindingVars, pointerVars, ringVars, codeVars>>
bindingButLog == <<kind, mounted, layerData, enabled, viewerVars, layerVars, loopVars,
                   rebuilds, lastRun, worldLoaded>>

\* The map component mounts: the viewer hook's effect, then the tracker's
\* effect and the map-action hook's effect, which both return when viewRef is
\* null. The hit-tests of an earlier view have settled.
MountMap(hasContainer) ==
    /\ ~mounted
    /\ views < MaxMounts
    /\ pendingTests = {}
    /\ Set(ViewerEffect([Cur EXCEPT !.mounted = TRUE], hasContainer))
    /\ popupData' = None
    /\ popupRef' = None
    /\ camera' = IF hasContainer THEN Some([x |-> 0, y |-> 0]) ELSE None
    /\ updates' = 0
    /\ trackerOn' = hasContainer
    /\ esOpen' = (hasContainer /\ kind # "cesium_risk")
    /\ viewGone' = FALSE
    /\ UNCHANGED <<hoverRef, shown, pointerEvent, pendingTests, delivered,
                   storeSide, ringVars, codeVars>>

\* The map component unmounts: the viewer is destroyed and viewRef cleared
\* first; then the ArcGIS tracker removes its watches and interval and the
\* map-action hook closes its channel. The Cesium tracker's cleanup returns when
\* viewerRef is null and leaves its postRender listener on the destroyed scene.
UnmountMap ==
    /\ mounted
    /\ Set(ViewerCleanup([Cur EXCEPT !.mounted = FALSE]))
    /\ camera' = None
    /\ trackerOn' = (trackerOn /\ kind = "cesium_risk")
    /\ esOpen' = FALSE
    /\ viewGone' = TRUE
    /\ UNCHANGED <<popupData, popupRef, updates, hoverRef, shown, pointerEvent,
                   pendingTests, delivered, storeSide, ringVars, codeVars>>

\* handleSelect(data): setPopupData(data)
Select(selection) ==
    /\ mounted
    /\ popupData' = selection
    /\ updates' = 0
    /\ UNCHANGED <<popupRef, camera, trackerOn, esOpen, offTracker>>

\* useEffect(() => { popupRef.current = popupData }, [popupData])
CommitPopup ==
    /\ mounted
    /\ popupRef # popupData
    /\ popupRef' = popupData
    /\ UNCHANGED <<popupData, camera, updates, trackerOn, esOpen, offTracker>>

\* The camera moves: the anchor projects to another point of the screen, or
\* to none.
CameraMoves(point) ==
    /\ viewRef # 0
    /\ camera # point
    /\ camera' = point
    /\ updates' = 0
    /\ UNCHANGED <<popupData, popupRef, trackerOn, esOpen, offTracker>>

\* updatePopupPosition(), on the interval, a view watch or postRender
Tick ==
    LET view == viewRef
        current == popupRef
        skip == IF view = 0 \/ current = None THEN TRUE ELSE current[1].position = 0
        off == IF skip THEN TRUE ELSE camera = None
        same == /\ ~off
                /\ Abs(current[1].x - camera[1].x) < EPSILON
                /\ Abs(current[1].y - camera[1].y) < EPSILON
    IN /\ trackerOn
       /\ off \/ same \/ updates < MaxUpdates
       /\ viewLog' = IF skip THEN viewLog
                     ELSE viewLog \cup {<<"toScreen", destroyCalls[view] > 0>>}
       /\ IF off \/ same
          THEN UNCHANGED <<popupData, updates>>
          ELSE /\ popupData' = Some([current[1] EXCEPT !.x = camera[1].x,
                                                       !.y = camera[1].y])
               /\ updates' = updates + 1
       /\ UNCHANGED <<bindingButLog, popupRef, camera, trackerOn, esOpen,
                      storeSide, pointerVars, ringVars, codeVars>>

\* The messages of the map-action channel: a zoom_to_place with a numeric
\* centre, one with a bad centre, another type, and text that is no JSON.
MapMessages == {"zoom_to_place", "zoom_without_center", "other_type", "not_json"}

\* es.onmessage
MapAction(msg) ==
    /\ esOpen
    /\ viewLog' = IF msg = "zoom_to_place" /\ viewRef # 0 /\ destroyCalls[viewRef] = 0
                  THEN viewLog \cup {<<"goTo", destroyCalls[viewRef] > 0>>}
                  ELSE viewLog
    /\ UNCHANGED <<bindingButLog, trackerVars, storeSide, pointerVars, ringVars, codeVars>>

\* es.onerror = () => es.close()
EsError ==
    /\ esOpen
    /\ esOpen' = FALSE
    /\ UNCHANGED <<popupData, popupRef, camera, updates, trackerOn, offTracker>>

TrackerInit ==
    /\ \E k \in {"risk", "cesium_risk"} : InitStore("risk") /\ InitBinding(k)
    /\ InitPointer /\ InitTracker /\ InitRing /\ InitCode /\ InitChat

TrackerNext ==
    \/ \E hasContainer \in BOOLEAN : MountMap(hasContainer)
    \/ UnmountMap
    \/ \E selection \in {None} \cup {Some(d) : d \in Selections} :
          Select(selection)
    \/ CommitPopup
    \/ \E point \in {None} \cup {Some(pt) : pt \in ScreenPoints} : CameraMoves(point)
    \/ Tick
    \/ \E msg \in MapMessages : MapAction(msg)
    \/ EsError

TrackerSpec == TrackerInit /\ [][TrackerNext]_vars

\* The same component with the pointer handlers of its bindings, on one
\* selection, fewer screen points and one hit-test result.
TeardownNext ==
    \/ \E hasContainer \in BOOLEAN : MountMap(hasContainer)
    \/ UnmountMap
    \/ Select(Some([x |-> 0, y |-> 0, position |-> 1]))
    \/ CommitPopup
    \/ \E point \in {None} \cup {Some(pt) : pt \in FewPoints} : CameraMoves(point)
    \/ Tick
    \/ \E msg \in MapMessages : MapAction(msg)
    \/ EsError
    \/ \E ev \in {"pointer-move", "click"} :
          /\ mounted
          /\ viewRef # 0
          /\ Dispatch(ev, [k \in PointerKinds |-> IF k \in {"price", "travel"} THEN 1 ELSE 0],
                      10)
    \/ \E k \in PointerKinds : Resolve(k)
    \/ \E k \in PointerKinds : HitTestRejects(k)

TeardownSpec == TrackerInit /\ [][TeardownNext]_vars

\* ------------------------------------------------------------ layer legend
\* Mutant: the indicator of the older widget, on while a refresh is loading.
getLayerLoadingWhileLoading(isEnabled) == loading \/ (isEnabled /\ Len(data) = 0)

\* getLayerLoading(id) for the layer of the store followed; isEnabled is the
\* layer's enabled flag, false for a layer the layer store does not list.
getLayerLoading(isEnabled) ==
    (loading \/ (isEnabled /\ Len(data) = 0)) /\ Len(data) = 0

\* disabled={isLoading}, and onClick toggles only if (!isLoading)
ToggleUsable(isEnabled) == ~getLayerLoading(isEnabled)

\* ------------------------------------------------------------------ chat list
\* Everything else stays as it is while the chat store is followed.
offChat == <<store, storeVars, flagVars, callVars, ghostVars, streamVars, pollVars,
             bindingVars, pointerVars, trackerVars, ringVars, codeVars>>

ChatIds == {"c1", "c2"}
\* A parsed body of GET /api/chat: a bare array, {chats: [...]}, an object
\* without the array, or JSON null.
ChatBodies ==
    {Body(shape, x, UNDEFINED) : shape \in {"array", "chats"}, x \in SeqsUpTo(ChatIds, MaxLen)}
    \cup {Body("object", <<>>, UNDEFINED), Body("null", <<>>, UNDEFINED)}

\* Array.isArray(data) ? data : Array.isArray(data?.chats) ? data.chats : []
ParseChats(p) == IF p.shape \in {"array", "chats"} THEN p.items ELSE <<>>

CHAT_ERROR == "Unable to load chats."

\* fetchChats(signal) up to its first await: the loadingChats guard, then
\* set({ loadingChats: true, chatError: null }) and fetch('/api/chat', { signal })
FetchChats(sg) ==
    IF loadingChats
    THEN UNCHANGED <<loadingChats, chatError, chatFetches>>
    ELSE /\ loadingChats' = TRUE
         /\ chatError' = NULL
         /\ chatFetches' = chatFetches \cup {[phase |-> "fetch", signal |-> sg]}

\* The drawer opens: the drawer's effect runs fetchChats(controller.signal).
OpenDrawer ==
    /\ ~drawerOpened
    /\ drawerOpened' = TRUE
    /\ listed' = FALSE
    /\ FetchChats("live")
    /\ UNCHANGED <<chats, sendingMessage, offChat>>

\* The drawer closes: the effect's cleanup runs controller.abort(). The
\* rejection reaches the aborted call in a later step.
CloseDrawer ==
    /\ drawerOpened
    /\ drawerOpened' = FALSE
    /\ chatFetches' = {IF f.signal = "live" THEN [f EXCEPT !.signal = "aborted"] ELSE f :
                          f \in chatFetches}
    /\ UNCHANGED <<chats, loadingChats, chatError, sendingMessage, listed, offChat>>

\* sendMessage(message) up to its POST
SendMessage ==
    /\ drawerOpened
    /\ ~sendingMessage
    /\ sendingMessage' = TRUE
    /\ UNCHANGED <<drawerOpened, chats, loadingChats, chatError, chatFetches, listed,
                   offChat>>

\* The reply arrives: sendMessage goes on to `await get().fetchChats()`.
ReplyArrives ==
    /\ sendingMessage
    /\ sendingMessage' = FALSE
    /\ FetchChats("none")
    /\ UNCHANGED <<drawerOpened, chats, listed, offChat>>

\* The POST fails: sendMessage's catch
ReplyFails ==
    /\ sendingMessage
    /\ sendingMessage' = FALSE
    /\ UNCHANGED <<drawerOpened, chats, loadingChats, chatError, chatFetches, listed,
                   offChat>>

\* An aborted call: the AbortError branch and finally
ChatAbort(f) ==
    /\ f.signal = "aborted"
    /\ chatFetches' = chatFetches \ {f}
    /\ loadingChats' = FALSE
    /\ UNCHANGED <<drawerOpened, chats, chatError, sendingMessage, listed, offChat>>

\* fetch rejects, the status is not OK, or response.json() rejects: catch
\* sets chatError, finally clears loadingChats.
ChatFails(f) ==
    /\ f.signal # "aborted"
    /\ chatFetches' = chatFetches \ {f}
    /\ chatError' = CHAT_ERROR
    /\ loadingChats' = FALSE
    /\ listed' = TRUE
    /\ UNCHANGED <<drawerOpened, chats, sendingMessage, offChat>>

\* fetch resolves with an OK response
ChatOk(f) ==
    /\ f.signal # "aborted"
    /\ f.phase = "fetch"
    /\ chatFetches' = (chatFetches \ {f}) \cup {[f EXCEPT !.phase = "json"]}
    /\ UNCHANGED <<drawerOpened, chats, loadingChats, chatError, sendingMessage, listed,
                   offChat>>

\* response.json() resolves: set({ chats }), finally clears loadingChats.
ChatResolves(f, p) ==
    /\ f.signal # "aborted"
    /\ f.phase = "json"
    /\ chatFetches' = chatFetches \ {f}
    /\ chats' = ParseChats(p)
    /\ loadingChats' = FALSE
    /\ listed' = TRUE
    /\ UNCHANGED <<drawerOpened, chatError, sendingMessage, offChat>>

\* The awaits of the fetchChats calls in flight settle.
ChatSettle ==
    \/ \E f \in chatFetches : ChatAbort(f)
    \/ \E f \in chatFetches : ChatFails(f)
    \/ \E f \in chatFetches : ChatOk(f)
    \/ \E f \in chatFetches : \E p \in ChatBodies : ChatResolves(f, p)

ChatInit == InitStore("risk") /\ NoMap

ChatNext ==
    \/ OpenDrawer
    \/ CloseDrawer
    \/ SendMessage
    \/ ReplyArrives
    \/ ReplyFails
    \/ ChatSettle

ChatSpec == ChatInit /\ [][ChatNext]_vars

\* Every request is answered and every rejection delivered in the end; the
\* user's actions are under no obligation.
ChatFairSpec == ChatSpec /\ WF_vars(ChatSettle)


\* -------------------------------------------------------------------- claims
\* Call c returns in this step.
Returns(c) == InFlight(c) /\ pc'[c] = "done"
ReturnsAs(c, out) == Returns(c) /\ lastOutcome' = out
\* Refresh calls issued in this step.
Issued == {c \in Calls : pc[c] = "idle" /\ pc'[c] = "fetch"}
Count(x, s) == Cardinality({i \in 1 .. Len(s) : s[i] = x})
IsPermutation(a, b) ==
    /\ Len(a) = Len(b)
    /\ \A i \in 1 .. Len(a) : Count(a[i], a) = Count(a[i], b)

C2_CancellationPurity ==
    [][\A c \in Calls :
          ReturnsAs(c, "cancelled")
              => (data' = dataBefore[c] /\ error' = errorBefore[c])]_vars

\* C3: while at most one refresh of a store has succeeded, lastEvent is null.
C3_FirstFetchSilence == nSuccess <= 1 => (lastEvent = None /\ emitted = 0)

C3_Witness ==
    /\ store \in ChangeStores
    /\ nSuccess = 1
    /\ lastOutcome = "ok"
    /\ data # <<>>
    /\ Cardinality({c \in Calls : pc[c] = "done"}) >= 2

\* C4: a successful refresh of the risk store replaces lastEvent by a new
\* risk_updated event exactly when an earlier refresh succeeded and the digest of
\* its snapshot differs from the digest of the new one; [{id 1, risk 10}] then
\* [{id 1, risk 85}] gives no event after the first fetch and one after the second.
C4_EventIffDigestDiffers ==
    [][\A c \in Calls :
          (store = "risk" /\ ReturnsAs(c, "ok"))
              => /\ (lastEvent' # lastEvent)
                      <=> (nSuccess > 0 /\ RiskDigest(data') # RiskDigest(data))
                 /\ (lastEvent' # lastEvent)
                      => /\ lastEvent'[1].type = "risk_updated"
                         /\ emitted' = emitted + 1
                 /\ (lastEvent' = lastEvent) => emitted' = emitted
                 /\ (/\ nSuccess = 1
                     /\ data = <<RiskItem(1, 10)>>
                     /\ data' = <<RiskItem(1, 85)>>)
                      => (emitted = 0 /\ emitted' = 1)]_vars

C4_Witness ==
    /\ store = "risk"
    /\ nSuccess = 2
    /\ data = <<RiskItem(1, 85)>>
    /\ emitted = 1
    /\ lastEvent # None

\* C5 as stated: a successful risk refresh whose snapshot is a permutation of
\* the previous one has the same digest and emits no Change Event.
C5_DigestStability ==
    [][\A c \in Calls :
          (store = "risk" /\ ReturnsAs(c, "ok") /\ nSuccess > 0
             /\ IsPermutation(data, data'))
              => (RiskDigest(data') = RiskDigest(data) /\ lastEvent' = lastEvent)]_vars

\* C6 as stated: in the risk and GDELT stores a channel error sets
\* streamConnected false, closes the channel and schedules a reconnect 2000 ms
\* later, and never is more than one reconnect pending.
C6_ErrorReconnects ==
    /\ [][\A k \in openSources :
            OnError(k)
                => /\ ~streamConnected'
                   /\ k \notin openSources'
                   /\ Len(timers') = Len(timers) + 1
                   /\ timers'[Len(timers')].ms = 2000]_vars
    /\ [](Len(timers) <= 1)

\* C7: starting a stream-backed store that holds no channel opens one, sets
\* streamConnected and issues one refresh; every push message, whatever it
\* carries, issues exactly one refresh.
C7_StartAndMessagesRefresh ==
    [][/\ (StartStream /\ eventSource = 0)
            => /\ eventSource' # 0
               /\ openSources' = {eventSource'}
               /\ streamConnected'
               /\ Cardinality(Issued) = 1
       /\ \A k \in openSources : \A m \in Messages :
            OnMessage(k, m) => Cardinality(Issued) = 1]_vars

C7_Witness ==
    /\ store \in StreamStores
    /\ eventSource # 0
    /\ streamConnected
    /\ Cardinality({c \in Calls : pc[c] # "idle"}) = 2

\* C8 as stated: when the first fetch of startRadarPolling(polling) returns, a
\* 15000 ms interval is scheduled exactly when polling was asked for and that
\* fetch returned a non-empty snapshot.
C8_PollIffFirstFetchNonEmpty ==
    [][\A c \in Calls :
          (Returns(c) /\ awaiter[c] # "none")
              => ((\E i \in intervals' \ intervals : i.ms = 15000)
                    <=> (/\ awaiter[c] = "polling"
                         /\ lastOutcome' = "ok"
                         /\ data' # <<>>))]_vars

\* C9 as stated: when a startRadarPolling call settles, no interval of an
\* earlier call is left, and polling is active exactly when this call asked for
\* it and its own first fetch returned a non-empty snapshot.
C9_FreshDecision ==
    [][\A c \in Calls :
          (Returns(c) /\ awaiter[c] # "none")
              => /\ \A i \in intervals' : i.id = c
                 /\ (intervals' # {})
                      <=> (/\ awaiter[c] = "polling"
                           /\ lastOutcome' = "ok"
                           /\ data' # <<>>)]_vars

\* C10 as stated: a refresh whose token the caller has aborted never writes data.
C10_AbortedNeverWrites ==
    [][\A c \in Calls :
          (sig[c] = "aborted" /\ Returns(c))
              => (data' = data /\ nWrites' = nWrites)]_vars

\* C11 as stated: a refresh that returns successfully leaves data equal to the
\* snapshot it read (in the JP Morgan store, the built-in list when the request
\* fails or reads an empty list), whatever was written since it was issued, and
\* a refresh that errs or is cancelled leaves data as it is; so data after
\* overlapping refreshes is the snapshot of the successful one that returned last.
C11_LastWriteWins ==
    [][\A c \in Calls :
          /\ \A p \in Payloads(store) :
                (JsonResolve(c, p) /\ lastOutcome' = "ok")
                    => data' = IF store = "jpmorgan" /\ Len(ParseItems(store, p)) = 0
                               THEN APAC_OFFICES
                               ELSE ParseItems(store, p)
          /\ (ReturnsAs(c, "failed") /\ store = "jpmorgan") => data' = APAC_OFFICES
          /\ (ReturnsAs(c, "failed") /\ store # "jpmorgan") => data' = data
          /\ ReturnsAs(c, "cancelled") => data' = data]_vars

\* C12: when a refresh call of any store returns, by success, failure or
\* cancellation, loading is false.
C12_LoadingClearedOnReturn ==
    [][\A c \in Calls : Returns(c) => loading' = FALSE]_vars

\* A cancelled call has returned while another call is still in flight.
C12_Witness ==
    /\ lastOutcome = "cancelled"
    /\ ~loading
    /\ \E c \in Calls : InFlight(c)

\* The update phase last ran on the layer the binding now holds.
RanHere == layerRef # 0 /\ lastRun # None /\ lastRun[1].layer = layerRef

\* What one update phase with these props leaves in a layer once it has
\* settled: nothing when disabled; the points of the valid records; the
\* country polygons, or nothing when the boundary dataset could not be read.
OnceOutcomes(k, items, on) ==
    IF ~on THEN {<<>>}
    ELSE IF k = "travel" THEN {<<>>, CountryGraphics(items)}
    ELSE {PointGraphics(k, items)}

\* C13: when the hit-test results of one click or pointer-move hold both a
\* primitive of a point layer (JP Morgan, price, risk) and one of the travel
\* advisory layer, every selection delivered to onSelect for that event is a
\* point layer's record and the travel advisory binding delivers none, in
\* whatever order the bindings' hit-test callbacks resolve.
BothHit ==
    /\ pointerEvent # None
    /\ pointerEvent[1].results["travel"] # 0
    /\ \E p \in PointKinds : pointerEvent[1].results[p] # 0
C13_PointBeforeArea ==
    BothHit =>
        \A i \in 1 .. Len(delivered) :
            /\ delivered[i].by \in PointKinds
            /\ delivered[i].arg = Selection(delivered[i].by,
                                            pointerEvent[1].results[delivered[i].by],
                                            pointerEvent[1].x)

\* C14 as stated: when the update phase has run twice in a row with the same
\* snapshot and enabled flag on a layer, with no rebuild of other props in
\* flight, then once no rebuild is in progress the layer holds what a single
\* run leaves: the same primitives with the same size, colour and angle.
C14_IdempotentRebuild ==
    (RanHere /\ lastRun[1].again /\ lastRun[1].alone /\ rebuilds = <<>>)
        => graphics[layerRef] \in OnceOutcomes(kind, lastRun[1].snapshot, lastRun[1].enabled)

\* C15 as stated: while the last update phase of a layer ran with enabled =
\* false, the layer holds no primitives, also while a rebuild started earlier
\* is in progress or completes.
C15_DisabledLayerStaysEmpty ==
    (RanHere /\ ~lastRun[1].enabled) => graphics[layerRef] = <<>>

\* C16 as stated: a point layer holds a primitive only for records whose
\* latitude and longitude are finite numbers, and after an enabled update phase
\* it holds one for every such record of the snapshot.
C16_OnlyFiniteCoordinates ==
    kind # "travel"
        => /\ \A l \in 1 .. MaxMounts : \A i \in 1 .. Len(graphics[l]) :
                /\ IsFinite(graphics[l][i].item.latitude)
                /\ IsFinite(graphics[l][i].item.longitude)
           /\ (RanHere /\ lastRun[1].enabled)
                => \A j \in 1 .. Len(lastRun[1].snapshot) :
                      LET item == lastRun[1].snapshot[j]
                      IN (IsFinite(item.latitude) /\ IsFinite(item.longitude))
                            => \E i \in 1 .. Len(graphics[layerRef]) :
                                  graphics[layerRef][i].item = item

\* C17: the binding never has more than one animation-frame request pending
\* (one live loop), through mounts, updates, unmounts and remounts, and none
\* while it is unmounted.
C17_OneFrameLoop ==
    /\ Cardinality(rafs) <= 1
    /\ ~mounted => rafs = {}

\* An animated binding, remounted, whose loop has run since.
C17_Witness ==
    /\ kind \in MountLoopKinds \cup UpdateLoopKinds
    /\ mounted
    /\ views = 2
    /\ frames >= 3
    /\ Cardinality(rafs) = 1

\* C18: on a pointer-move hit-test of an interactive binding, when the hit
\* primitive differs from the hovered one the binding puts the previous one
\* back to idle, highlights the new one and calls onSelect with the hit record
\* and the pointer's screen coordinates; when the pointer has left all of the
\* layer's primitives it calls onSelect(null).
C18_HoverSelects ==
    [][\A k \in PointerKinds :
          (Resolve(k) /\ ~viewGone /\ pointerEvent[1].ev = "pointer-move")
              => LET e == pointerEvent[1]
                     g == e.results[k]
                     h == hoverRef[k]
                 IN /\ (g # 0 /\ g # h)
                          => /\ h # 0 => <<k, h>> \notin shown'
                             /\ <<k, g>> \in shown'
                             /\ delivered' = Append(delivered,
                                                    [by |-> k, arg |-> Selection(k, g, e.x)])
                    /\ (g = 0 /\ h # 0)
                          => delivered' = Append(delivered, [by |-> k, arg |-> None])]_vars

\* C19: when the mount effect's cleanup runs, no handler of its layer stays
\* registered, the layer is in no live view's map, and no call is made into a
\* destroyed view, also when the viewport was destroyed and its reference
\* cleared first.
C19_UnmountIsDefensive ==
    [][(ownLayer # 0 /\ ownLayer' # ownLayer)
          => /\ \A h \in handlers' : h.layer # ownLayer
             /\ \A p \in mapLayers' : p[2] # ownLayer
             /\ \A call \in viewLog' : ~call[2]]_vars

\* The component has unmounted: the viewport was destroyed first, then the
\* binding's cleanup ran without a call into it.
C19_Witness ==
    /\ ~mounted
    /\ layers >= 1
    /\ ownLayer = 0
    /\ layerRef = 0
    /\ handlers = {}
    /\ destroyCalls[1] = 1
    /\ viewLog = {<<"add", FALSE>>, <<"destroy", FALSE>>}

LiveViews == {v \in 1 .. views : destroyCalls[v] = 0}

\* C20: at most one rendering-surface instance is live, none receives more
\* than one destroy(), the shared reference is null or a live instance, and
\* after teardown the reference is null and every instance is destroyed.
C20_OneLiveInstance ==
    /\ Cardinality(LiveViews) <= 1
    /\ \A v \in 1 .. MaxMounts : destroyCalls[v] <= 1
    /\ viewRef # 0 => viewRef \in LiveViews
    /\ ~mounted => (viewRef = 0 /\ LiveViews = {})

\* A second instance is live after the first was torn down.
C20_Witness ==
    /\ mounted
    /\ views = 2
    /\ destroyCalls[1] = 1
    /\ viewRef = 2
    /\ LiveViews = {2}

\* C21 as stated: once a rebuild has read the world boundary dataset, no later
\* update phase starts a rebuild that asks the network for it again.
Fetching(rs) == Len(SelectSeq(rs, LAMBDA r : r.pc = "fetch"))
C21_FetchedOnce ==
    [][worldLoaded => Fetching(rebuilds') <= Fetching(rebuilds)]_vars

\* C22: in every completed choropleth rebuild, a region of the list gets
\* polygons exactly when the dataset has a boundary feature for it; they carry
\* the level colour of the advisory record whose uppercased, trimmed code is
\* the region's, and the neutral grey when there is no such record or its level
\* is null or outside 1..4.
Normal(code) == Trim(ToUpperCase(code))
HasBoundary(code) ==
    \E n \in 1 .. Len(WorldFeatures) : ToUpperCase(WorldFeatures[n].iso_a2) = code
C22_RegionColours ==
    [][\A i \in 1 .. Len(rebuilds) :
          RebuildRendered(i)
              => LET l == rebuilds[i].layer
                     items == rebuilds[i].items
                     added == SubSeq(graphics'[l], Len(graphics[l]) + 1, Len(graphics'[l]))
                 IN \A c \in 1 .. Len(APAC_ISO2_CODES) :
                       LET code == APAC_ISO2_CODES[c]
                           mine == {n \in 1 .. Len(added) :
                                       Normal(added[n].item.country) = code}
                           recs == {n \in 1 .. Len(items) :
                                       Normal(items[n].country) = code}
                           rated == {n \in recs : /\ items[n].level.t = "number"
                                                  /\ items[n].level.n \in 1 .. 4}
                       IN /\ HasBoundary(code) <=> mine # {}
                          /\ \A n \in mine :
                                IF rated = {}
                                THEN added[n].color = NEUTRAL_COLOR
                                ELSE \E r \in rated :
                                        added[n].color = LEVEL_COLORS[items[r].level.n]]_vars

\* A rebuild has drawn Japan (whose record spells " jp") in the colour of level
\* 2, and Korea (null level), Singapore (no record) and Thailand (level 5) in
\* grey; CN-TW has no boundary and no polygon.
C22_Witness ==
    /\ kind = "travel"
    /\ layerRef # 0
    /\ rebuilds = <<>>
    /\ LET g == graphics[layerRef]
       IN /\ Len(g) = 5
          /\ g[1].color = LEVEL_COLORS[2] /\ g[2].color = LEVEL_COLORS[2]
          /\ g[3].item.country = KR /\ g[3].color = NEUTRAL_COLOR
          /\ g[4].item = [country |-> SG, level |-> JsNull] /\ g[4].color = NEUTRAL_COLOR
          /\ g[5].item.country = TH /\ g[5].color = NEUTRAL_COLOR

\* C23 as stated: a boundary ring of 200 or more vertices becomes a polygon
\* ring of exactly 200 vertices whose first and last vertices are the
\* original's.
C23_RingBudget ==
    (polygonRing # None /\ Len(geometryRing) >= 200)
        => LET ring == polygonRing[1]
               n == Len(geometryRing)
           IN /\ Len(ring) = 200
              /\ ring[1] = <<geometryRing[1][1], geometryRing[1][2]>>
              /\ ring[200] = <<geometryRing[n][1], geometryRing[n][2]>>

\* C24 as stated: a tick of the popup tracker changes the popup only when the
\* selected item's screen position differs from the position the tracker last
\* read by more than 0.5 px, and it is, at most, the first update since the
\* selection or the camera last changed.
C24_TrackerSettles ==
    [][Tick => /\ popupData' # popupData
                     => \/ Abs(popupRef[1].x - camera[1].x) > EPSILON
                        \/ Abs(popupRef[1].y - camera[1].y) > EPSILON
               /\ updates' <= 1]_vars

\* C30: a hit-test that settles after the view was destroyed changes no
\* highlight and selects nothing, a tracker tick that finds the view reference
\* cleared changes neither the popup nor the view, and no call is ever made on
\* a destroyed view.
C30_NothingOnDestroyedView ==
    [][/\ (viewGone /\ pendingTests' # pendingTests)
             => UNCHANGED <<hoverRef, shown, delivered>>
       /\ (Tick /\ viewRef = 0) => UNCHANGED <<popupData, viewLog>>
       /\ \A call \in viewLog' : ~call[2]]_vars

\* The map is unmounted and its view destroyed; the area binding's hit-test of
\* a click on a country has settled and selected nothing while the price
\* binding's is still to come, and the tracker's listener is still attached
\* with a selection to track.
C30_Witness ==
    /\ ~mounted
    /\ viewGone
    /\ viewRef = 0
    /\ pointerEvent # None
    /\ pointerEvent[1].ev = "click"
    /\ pointerEvent[1].results["travel"] # 0
    /\ pendingTests = PointerKinds \ {"travel"}
    /\ delivered = <<>>
    /\ trackerOn
    /\ popupRef # None
    /\ popupRef[1].position = 1

Malformed(s, p) ==
    CASE s \in {"risk", "radar"} -> p.shape # "array"
      [] s = "gdelt" -> p.shape # "features"
      [] s = "travel" -> p.shape # "items"
      [] OTHER -> p.shape \notin {"items", "array"}

\* C26 as stated: in every store, a refresh whose response is OK and whose body
\* has not the expected shape, JSON null included, returns as a success with
\* an empty snapshot as data and error null.
C26_MalformedIsEmpty ==
    [][\A c \in Calls : \A p \in Payloads(store) :
          (JsonResolve(c, p) /\ Malformed(store, p))
              => (lastOutcome' = "ok" /\ error' = NULL /\ data' = <<>>)]_vars

\* C28: a stream-backed store never has two push channels open, the open
\* channel is the one the module's handle names, and a start call made while a
\* channel is open opens no channel and issues no refresh.
C28_OneChannel ==
    [][/\ Cardinality(openSources') <= 1
       /\ openSources' \subseteq {eventSource'}
       /\ (StartStream /\ openSources # {})
             => UNCHANGED <<openSources, eventSource, streamConnected, pc, callVars, timers>>]_vars

\* A channel is open while a reconnect timer of an earlier error is pending
\* and the refresh issued with the channel is still in flight.
C28_Witness ==
    /\ Cardinality(openSources) = 1
    /\ timers # <<>>
    /\ \E c \in Calls : pc[c] = "fetch"

\* C29: in a change-detecting store a refresh that fails or is cancelled leaves
\* lastEvent and lastSnapshot as they are; a successful one stores its digest,
\* leaves lastEvent as it is when the digest is the stored one and puts a new
\* event in its place when it differs; and lastEvent, once set, is never null
\* again.
C29_OneLastEvent ==
    [][/\ \A c \in Calls :
            /\ (ReturnsAs(c, "failed") \/ ReturnsAs(c, "cancelled"))
                  => UNCHANGED <<lastEvent, lastSnapshot>>
            /\ (store \in ChangeStores /\ ReturnsAs(c, "ok"))
                  => /\ lastSnapshot' = Some(Digest(store, query', data'))
                     /\ lastSnapshot' = lastSnapshot => lastEvent' = lastEvent
                     /\ (lastSnapshot # None /\ lastSnapshot' # lastSnapshot)
                           => (lastEvent' # lastEvent /\ lastEvent' # None)
       /\ lastEvent # None => lastEvent' # None]_vars

\* A change-detecting store still holds its event and digest after its last
\* refresh failed.
C29_Witness ==
    /\ store \in ChangeStores
    /\ lastEvent # None
    /\ lastSnapshot # None
    /\ lastOutcome = "failed"
    /\ error # NULL
    /\ \A c \in Calls : pc[c] = "done"

C31_OfficesNeverEmpty ==
    [][\A c \in Calls :
          (store = "jpmorgan" /\ Returns(c) /\ sig[c] # "aborted")
              => /\ data' # <<>>
                 /\ error' = NULL
                 /\ ReturnsAs(c, "failed") => data' = APAC_OFFICES
                 /\ \A p \in Payloads(store) :
                       JsonResolve(c, p)
                           => data' = IF Len(ParseItems(store, p)) > 0
                                      THEN ParseItems(store, p)
                                      ELSE APAC_OFFICES]_vars

\* The facility store holds the built-in list after a refresh that failed,
\* with no error.
C31_Witness ==
    /\ store = "jpmorgan"
    /\ lastOutcome = "failed"
    /\ data = APAC_OFFICES
    /\ error = NULL
    /\ ~loading

\* C32 as stated: COUNTRY_CODE_TO_ISO2 is idempotent: when the value a key
\* resolves to is itself a key of the table, that key resolves to itself.
C32_Idempotent ==
    (resolved # None /\ resolved[1] \in DOMAIN COUNTRY_CODE_TO_ISO2)
        => Lookup(COUNTRY_CODE_TO_ISO2, resolved[1]) = resolved[1]

\* C33 as stated: from the return of stopGdeltStream() to the next
\* startGdeltStream() call no GDELT channel is open and streamConnected is
\* false, also when a reconnect timeout was pending at the stop.
C33_StaysStopped ==
    /\ openSources = {}
    /\ eventSource = 0
    /\ ~streamConnected

\* C34 as stated: from the return of stopRadarPolling() to the next
\* startRadarPolling call no poll timer is active and no refresh is issued by
\* one, also when the stop came while a startRadarPolling call was awaiting
\* its first fetch.
C34_NoPollAfterStop ==
    /\ [](intervals = {} /\ pollTimer = 0)
    /\ [][\A i \in intervals : ~PollTick(i)]_vars

\* C35 as stated: at most one radar poll interval exists and pollTimer is its
\* handle, under any interleaving of startRadarPolling and stopRadarPolling.
C35_OneInterval ==
    /\ Cardinality(intervals) <= 1
    /\ \A i \in intervals : i.id = pollTimer
    /\ pollTimer # 0 => \E i \in intervals : i.id = pollTimer

\* C36 as stated: loading is true in every state in which at least one refresh
\* of the store is still in flight.
C36_LoadingWhileInFlight == (\E c \in Calls : InFlight(c)) => loading

\* C37 as stated: immediately after a refresh has committed a new snapshot,
\* error is null, also when an overlapping refresh failed meanwhile.
C37_CommitClearsError ==
    [][\A c \in Calls :
          (ReturnsAs(c, "ok") /\ nWrites' = nWrites + 1) => error' = NULL]_vars

\* C38 as stated: streamConnected is true exactly when the module holds an
\* open channel handle.
C38_ConnectedIffHandle == streamConnected <=> eventSource # 0

\* C39: in each interactive point layer at most one primitive is in the hover
\* appearance, in whatever order the hit-tests of successive pointer-move
\* events resolve.
C39_OneHighlighted ==
    \A k \in PointKinds : Cardinality({p \in shown : p[1] = k}) <= 1

\* A later event's hit-test has resolved before an earlier one's, then the
\* earlier one, and each highlighted a different primitive.
C39_Witness ==
    /\ \E i, j \in 1 .. Len(pendingTests) :
          /\ i < j
          /\ pendingTests[i].done /\ pendingTests[j].done
          /\ pendingTests[i].g # 0 /\ pendingTests[j].g # 0
          /\ pendingTests[i].g # pendingTests[j].g
          /\ shown = {<<kind, pendingTests[i].g>>}
          /\ hoverRef[kind] = pendingTests[i].g
    /\ ~viewGone

====
